---- MODULE Spec2Model ----
(***************************************************************************)
(* Model of the Notion AI CRM pipeline: the incremental lead selector,     *)
(* the five-stage agent chain and the run-state persistence of             *)
(* pipeline.run_pipeline, with the record store (services/notion_service)  *)
(* and the agents (agents/*.py) it drives.                                 *)
(*                                                                         *)
(* Python dicts are functions from string keys to values; {**a, **b} is    *)
(* Merge(a, b).  Time is an integer clock whose unit is one day.  Free     *)
(* text is abstracted by the set of signal types whose patterns match it.  *)
(***************************************************************************)
EXTENDS Integers, Sequences, FiniteSets, TLC

VARIABLES
    notion,          \* which record store run_pipeline talks to
    incremental,     \* Config.INCREMENTAL_ENABLED
    pages,           \* the store: sequence of page records
    state_file,      \* persisted last_successful_run (PyNone when absent)
    now,             \* wall clock
    pc,              \* position of run_pipeline: idle, loop, finish, done
    args,            \* arguments of the current run: limit, dry_run, full_refresh
    leads,           \* the list the batch loop iterates over
    fetched,         \* what fetch_leads (or SAMPLE_LEADS) returned to this run
    idx,             \* 1-based index of the lead in flight
    stage,           \* next stage of the lead in flight
    cur,             \* results produced so far for the lead in flight
    result,          \* PipelineResult
    updated,         \* page ids for which the store accepted an update, in order
    called,          \* what the current run called of the store and the state file
    file_at_start,   \* state_file as it was when the run started
    runs,            \* number of started runs
    budget,          \* number of runs still to be started
    h_in,            \* function harness: the arguments of the call
    h_out            \* function harness: the value returned

vars == <<notion, incremental, pages, state_file, now, pc, args, leads, fetched,
          idx, stage, cur, result, updated, called, file_at_start, runs, budget,
          h_in, h_out>>

-----------------------------------------------------------------------------
(* Bounds of the model *)

MaxLeads == 2        \* pages in the store
MaxTime == 2         \* the clock runs from 0 to MaxTime
MaxLimit == 1        \* --limit ranges over None, 1 .. MaxLimit
MaxRuns == 2         \* runs of the pipeline in one behaviour of RepeatSpec
MaxRepeatLeads == 1  \* pages in the store in RepeatSpec
MaxProviders == 2    \* providers in the order of the web research service
MaxFetches == 3      \* fetches of one web research service instance
MaxCount == 2        \* each count of the result at the end of a run
MaxScrapes == 2      \* research_lead calls on one web research service instance

(* Python values that are not integers, in integer-typed slots *)

PyNone == -9999      \* None (also a missing key read with .get)
NotNumeric == -9998  \* a value that is neither int nor float (or is a bool)
BadIso == -9997      \* a string datetime.fromisoformat rejects
NoneStr == "<None>"  \* None in a string-typed slot

-----------------------------------------------------------------------------
(* Dict helpers *)

Merge(a, b) == b @@ a

Get(d, k, default) == IF k \in DOMAIN d THEN d[k] ELSE default

EmptyDict == [k \in {} |-> 0]

Strip(s) == IF s \in {" ", "  "} THEN "" ELSE s

-----------------------------------------------------------------------------
(* pipeline.py: the incremental selector *)

_parse_iso_datetime(value) ==
    IF value = PyNone THEN PyNone
    ELSE IF value = BadIso THEN PyNone
    ELSE value

_is_blank(value) ==
    IF value = NoneStr THEN TRUE ELSE Strip(value) = ""

NoResults == [is_dict |-> FALSE]

\* the outputs a run stores for a lead whose ICP response could not be parsed
ParseFailed == [icp_score |-> -1, priority_tier |-> "review", next_action |-> "enrich_data"]

\* variant: a negative stored score counts as an output
_has_required_outputs_negative_ok(existing_results) ==
    IF ~existing_results.is_dict THEN FALSE
    ELSE IF existing_results.icp_score \in {PyNone, NotNumeric} THEN FALSE
    ELSE IF _is_blank(existing_results.priority_tier) THEN FALSE
    ELSE IF _is_blank(existing_results.next_action) THEN FALSE
    ELSE TRUE

_has_required_outputs(existing_results) ==
    IF ~existing_results.is_dict THEN FALSE
    ELSE IF existing_results.icp_score \in {PyNone, NotNumeric}
            \/ existing_results.icp_score < 0 THEN FALSE
    ELSE IF _is_blank(existing_results.priority_tier) THEN FALSE
    ELSE IF _is_blank(existing_results.next_action) THEN FALSE
    ELSE TRUE

\* variant: "changed" also when last_edited_time equals the stored timestamp
_should_process_lead_gte(lead, last_successful_run) ==
    LET existing == Get(lead, "existing_results", NoResults)
        last_edited == _parse_iso_datetime(Get(lead, "last_edited_time", PyNone))
    IN  IF ~_has_required_outputs(existing) THEN <<TRUE, "missing outputs">>
        ELSE IF last_successful_run = PyNone THEN <<FALSE, "already scored">>
        ELSE IF last_edited # PyNone /\ last_edited >= last_successful_run
             THEN <<TRUE, "changed since last run">>
        ELSE <<FALSE, "unchanged since last run">>

_should_process_lead(lead, last_successful_run) ==
    LET existing == Get(lead, "existing_results", NoResults)
        last_edited == _parse_iso_datetime(Get(lead, "last_edited_time", PyNone))
    IN  IF ~_has_required_outputs(existing) THEN <<TRUE, "missing outputs">>
        ELSE IF last_successful_run = PyNone THEN <<FALSE, "already scored">>
        ELSE IF last_edited # PyNone /\ last_edited > last_successful_run
             THEN <<TRUE, "changed since last run">>
        ELSE <<FALSE, "unchanged since last run">>

-----------------------------------------------------------------------------
(* config.py: priority thresholds (defaults) *)

HIGH_ICP_MIN == 75
HIGH_RECENCY_MAX == 10
LOW_ICP_MAX == 40
LOW_STALE_DAYS == 45
STALE_DAYS_THRESHOLD == 14
UnknownDays == 999

-----------------------------------------------------------------------------
(* agents/base_agent.py, agents/icp_agent.py *)

Max2(a, b) == IF a >= b THEN a ELSE b
Min2(a, b) == IF a <= b THEN a ELSE b

_clamp(value, min_val, max_val) == Max2(min_val, Min2(max_val, value))

\* The text of a generation response, as _parse_json_response reads it:
\*   fence    "json" when it holds ```json, "plain" for another ```, else "none"
\*   newline  a line break follows the opening fence
\*   closed   a second ``` follows the opening fence
\*   body     what stands where the JSON is expected: an object, an object
\*            inside prose, an array, null, an object cut short, or no JSON
\*   data     the keys of the object, when the body holds one
Bodies == {"object", "text_object", "array", "null", "truncated", "garbage"}

\* "dict" (data is returned), "none" (None is returned), "nondict" (a list is
\* returned) or "raise" (str.index finds no line break after ```json)
_parse_json_response(raw) ==
    IF raw.fence = "json" /\ ~raw.newline THEN "raise"
    ELSE LET stripped == raw.fence = "none" \/ raw.closed
         IN  CASE raw.body \in {"object", "text_object"} -> "dict"
               [] raw.body = "array" -> IF stripped THEN "nondict" ELSE "none"
               [] OTHER -> "none"

\* A generation response is [json |-> FALSE] when no JSON object can be
\* extracted from it, else [json |-> TRUE, ...] with the parsed keys.
ICPResponses ==
    {[json |-> FALSE]} \cup
    [json : {TRUE}, icp_score : {80}, confidence_score : {70}]

DIMENSIONS ==
    <<"company_size_stage", "market_industry_fit", "budget_buying_signals",
      "engagement_accessibility", "strategic_alignment">>

DIMENSION_MAX == 20
SCORE_MAX == 100

\* the clamped score of dimension dim in the parsed response
DimScore(response, dim) ==
    _clamp(Get(Get(response, "dimension_scores", EmptyDict), dim, 0), 0, DIMENSION_MAX)

\* the dict _parse returns: dim_scores is computed and used for the fallback
\* total only, it is not part of the result
ICPAgent_parse(response) ==
    IF ~response.json
    THEN [icp_score |-> -1, confidence_score |-> 0,
          icp_reasoning |-> "not valid JSON", data_gaps |-> "Parse failure"]
    ELSE LET score(i) == DimScore(response, DIMENSIONS[i])
             total == score(1) + score(2) + score(3) + score(4) + score(5)
         IN  [icp_score |-> _clamp(Get(response, "icp_score", total), 0, SCORE_MAX),
              confidence_score |-> _clamp(Get(response, "confidence_score", 0), 0, SCORE_MAX),
              icp_reasoning |-> "reasoning", data_gaps |-> ""]

ICPAgent_run(lead, response) == ICPAgent_parse(response)

-----------------------------------------------------------------------------
(* agents/research_agent.py, agents/signal_agent.py *)

\* In the pipeline the generated brief is abstracted by the set of signal types
\* its text matches; ResearchAgent_run_web below spells out the other outputs.
ResearchResponses == {{}, {"funding"}}

ResearchAgent_run(lead, response) == [research_brief |-> response]

_SIGNAL_RULES ==
    << [signal_type |-> "buying_intent", signal_strength |-> "high"],
       [signal_type |-> "funding", signal_strength |-> "high"],
       [signal_type |-> "leadership_change", signal_strength |-> "high"],
       [signal_type |-> "hiring", signal_strength |-> "medium"],
       [signal_type |-> "technology_initiative", signal_strength |-> "medium"] >>

_STRENGTH_RANK == [none |-> 0, low |-> 1, medium |-> 2, high |-> 3]

\* A text is abstracted by the set of signal types whose patterns it matches;
\* of the company names only "Hiring Hub" matches a pattern
NameSignals(company_name) == IF company_name = "Hiring Hub" THEN {"hiring"} ELSE {}

_build_context_text(lead) ==
    NameSignals(Get(lead, "company_name", ""))
    \cup Get(lead, "notes", {}) \cup Get(lead, "research_brief", {})
    \cup Get(lead, "status", {})

\* the loop of the variant: a later rule of equal rank replaces the best one
RECURSIVE _detect_signal_loop_last(_, _, _, _)
_detect_signal_loop_last(matched, r, best, best_rank) ==
    IF r > Len(_SIGNAL_RULES) THEN best
    ELSE LET rank == _STRENGTH_RANK[_SIGNAL_RULES[r].signal_strength]
         IN  IF _SIGNAL_RULES[r].signal_type \in matched /\ rank >= best_rank
             THEN _detect_signal_loop_last(matched, r + 1, r, rank)
             ELSE _detect_signal_loop_last(matched, r + 1, best, best_rank)

\* the loop over the rules from rule r on, with best (0 for None) and best_rank
RECURSIVE _detect_signal_loop(_, _, _, _)
_detect_signal_loop(matched, r, best, best_rank) ==
    IF r > Len(_SIGNAL_RULES) THEN best
    ELSE LET rank == _STRENGTH_RANK[_SIGNAL_RULES[r].signal_strength]
         IN  IF _SIGNAL_RULES[r].signal_type \in matched /\ rank > best_rank
             THEN _detect_signal_loop(matched, r + 1, r, rank)
             ELSE _detect_signal_loop(matched, r + 1, best, best_rank)

\* variant: among rules of equal rank the last declared is returned
_detect_signal_last(matched) == _detect_signal_loop_last(matched, 1, 0, -1)

\* index of the rule _detect_signal returns for a text matching `matched`, 0 for None
_detect_signal(matched) == _detect_signal_loop(matched, 1, 0, -1)

SignalAgent_run(lead) ==
    LET detected == _detect_signal(_build_context_text(lead))
    IN  IF detected = 0
        THEN [signal_type |-> "none", signal_strength |-> "none"]
        ELSE [signal_type |-> _SIGNAL_RULES[detected].signal_type,
              signal_strength |-> _SIGNAL_RULES[detected].signal_strength]

-----------------------------------------------------------------------------
(* agents/priority_agent.py *)

Lower(s) ==
    CASE s = "HIGH" -> "high"
      [] s = "Medium" -> "medium"
      [] s = "HOLD" -> "hold"
      [] s = "Low" -> "low"
      [] OTHER -> s

\* variant: a lead of unknown recency counts as contacted today
_calculate_days_since_contact_unknown_recent(last_contacted, clock) ==
    IF last_contacted \in {PyNone, BadIso} THEN 0
    ELSE clock - last_contacted

_calculate_days_since_contact(last_contacted, clock) ==
    IF last_contacted \in {PyNone, BadIso} THEN UnknownDays
    ELSE clock - last_contacted

PriorityResponses ==
    {[json |-> FALSE]} \cup
    [json : {TRUE}, priority_tier : {"medium", "low", "urgent"}]

\* <<tier, reasoning, number of generation calls made>>
_llm_priority(response) ==
    IF response.json /\ DOMAIN response # {"json"}
    THEN LET tier == Lower(Get(response, "priority_tier", "medium"))
         IN  <<IF tier \notin {"high", "medium", "low"} THEN "medium" ELSE tier,
               "Determined by AI analysis.", 1>>
    ELSE <<"medium", "Could not parse LLM response; defaulting to medium.", 1>>

\* variant: "recent" means strictly fewer days than HIGH_RECENCY_MAX
PriorityRule_strict_recency(icp_score, days_since_contact) ==
    IF icp_score >= HIGH_ICP_MIN /\ days_since_contact < HIGH_RECENCY_MAX THEN "high"
    ELSE IF icp_score <= LOW_ICP_MAX THEN "low_icp"
    ELSE IF days_since_contact >= LOW_STALE_DAYS THEN "low_stale"
    ELSE "llm"

\* which rule of _determine_priority decides: high, low_icp, low_stale or llm
PriorityRule(icp_score, days_since_contact) ==
    IF icp_score >= HIGH_ICP_MIN /\ days_since_contact <= HIGH_RECENCY_MAX THEN "high"
    ELSE IF icp_score <= LOW_ICP_MAX THEN "low_icp"
    ELSE IF days_since_contact >= LOW_STALE_DAYS THEN "low_stale"
    ELSE "llm"

_determine_priority(lead, icp_score, days_since_contact, response) ==
    LET rule == PriorityRule(icp_score, days_since_contact)
    IN  CASE rule = "high" -> <<"high", "Strong ICP fit with recent contact.", 0>>
          [] rule = "low_icp" -> <<"low", "Low ICP fit.", 0>>
          [] rule = "low_stale" -> <<"low", "Lead is stale.", 0>>
          [] OTHER -> _llm_priority(response)

\* variant: only a missing icp_score is invalid
IcpInvalid_none_only(icp_score) == icp_score = PyNone

\* "icp_score is None or icp_score < 0"
IcpInvalid(icp_score) == icp_score = PyNone \/ icp_score < 0

\* variant: a medium tier is raised to high by any signal that is not "none"
PriorityAgent_run_boosting(lead, clock, response) ==
    LET days == _calculate_days_since_contact(Get(lead, "last_contacted", PyNone), clock)
        stale == days >= STALE_DAYS_THRESHOLD
        icp_score == Get(lead, "icp_score", PyNone)
    IN  IF IcpInvalid(icp_score)
        THEN [out |-> [priority_tier |-> "review",
                       priority_reasoning |-> "ICP score is unavailable",
                       stale_flag |-> stale, days_since_contact |-> days],
              llm_calls |-> 0]
        ELSE LET tr == _determine_priority(lead, icp_score, days, response)
                 boost == /\ tr[1] = "medium"
                          /\ Get(lead, "signal_strength", "none") # "none"
                          /\ icp_score > LOW_ICP_MAX
             IN  [out |-> [priority_tier |-> IF boost THEN "high" ELSE tr[1],
                           priority_reasoning |->
                               IF boost THEN "Boosted from medium to high" ELSE tr[2],
                           stale_flag |-> stale, days_since_contact |-> days],
                  llm_calls |-> tr[3]]

\* variant: the review result does not carry the staleness of the lead
PriorityAgent_run_review_not_stale(lead, clock, response) ==
    LET days == _calculate_days_since_contact(Get(lead, "last_contacted", PyNone), clock)
        stale == days >= STALE_DAYS_THRESHOLD
        icp_score == Get(lead, "icp_score", PyNone)
    IN  IF IcpInvalid(icp_score)
        THEN [out |-> [priority_tier |-> "review",
                       priority_reasoning |-> "ICP score is unavailable",
                       stale_flag |-> FALSE, days_since_contact |-> days],
              llm_calls |-> 0]
        ELSE LET tr == _determine_priority(lead, icp_score, days, response)
             IN  [out |-> [priority_tier |-> tr[1], priority_reasoning |-> tr[2],
                           stale_flag |-> stale, days_since_contact |-> days],
                  llm_calls |-> tr[3]]

\* the dict PriorityAgent.run returns (out) and the number of generation
\* calls it made (llm_calls)
PriorityAgent_run(lead, clock, response) ==
    LET days == _calculate_days_since_contact(Get(lead, "last_contacted", PyNone), clock)
        stale == days >= STALE_DAYS_THRESHOLD
        icp_score == Get(lead, "icp_score", PyNone)
    IN  IF IcpInvalid(icp_score)
        THEN [out |-> [priority_tier |-> "review",
                       priority_reasoning |-> "ICP score is unavailable",
                       stale_flag |-> stale, days_since_contact |-> days],
              llm_calls |-> 0]
        ELSE LET tr == _determine_priority(lead, icp_score, days, response)
             IN  [out |-> [priority_tier |-> tr[1], priority_reasoning |-> tr[2],
                           stale_flag |-> stale, days_since_contact |-> days],
                  llm_calls |-> tr[3]]

NoResponse == [json |-> FALSE]

\* whether PriorityAgent.run reaches self._call_llm for this lead
PriorityCallsLLM(lead, clock) == PriorityAgent_run(lead, clock, NoResponse).llm_calls > 0

-----------------------------------------------------------------------------
(* agents/action_agent.py *)

_VALID_ACTIONS == {"outreach_now", "reengage", "nurture", "enrich_data", "hold"}
_VALID_CONFIDENCE == {"high", "medium", "low"}

ActionResponses ==
    {[json |-> FALSE]} \cup
    [json : {TRUE}, next_action : {"hold", "call_ceo"}, action_confidence : {"high"}]

\* A generated text is [len |-> its length]; text[:n] is Slice(text, n).
Slice(text, n) == [len |-> Min2(text.len, n)]

REASONING_MAX == 1000

\* variant: the action of the response is taken as it is
_llm_action_unchecked(response) ==
    IF ~response.json \/ DOMAIN response = {"json"}
    THEN <<"enrich_data", "Could not parse model output.", "low", 1>>
    ELSE LET action == Lower(Get(response, "next_action", "enrich_data"))
             confidence == Lower(Get(response, "action_confidence", "medium"))
         IN  <<action,
               IF "action_reasoning" \in DOMAIN response
               THEN Slice(response.action_reasoning, REASONING_MAX)
               ELSE "Determine next step from available lead context.",
               IF confidence \notin _VALID_CONFIDENCE THEN "medium" ELSE confidence,
               1>>

\* <<action, reasoning, confidence, number of generation calls made>>; a
\* response [json |-> TRUE] with no key is the empty object, which "not data"
\* treats like a parse failure
_llm_action(response) ==
    IF ~response.json \/ DOMAIN response = {"json"}
    THEN <<"enrich_data", "Could not parse model output.", "low", 1>>
    ELSE LET action == Lower(Get(response, "next_action", "enrich_data"))
             confidence == Lower(Get(response, "action_confidence", "medium"))
         IN  <<IF action \notin _VALID_ACTIONS THEN "enrich_data" ELSE action,
               IF "action_reasoning" \in DOMAIN response
               THEN Slice(response.action_reasoning, REASONING_MAX)
               ELSE "Determine next step from available lead context.",
               IF confidence \notin _VALID_CONFIDENCE THEN "medium" ELSE confidence,
               1>>

\* variant: a high tier gives outreach_now whether stale or not
_determine_action_stale_ignored(lead, response) ==
    LET priority == Lower(Get(lead, "priority_tier", "review"))
    IN  IF priority = "review" THEN <<"enrich_data", "Insufficient signal", "high", 0>>
        ELSE IF priority = "low" THEN <<"nurture", "Low-priority lead", "high", 0>>
        ELSE IF priority = "high"
             THEN <<"outreach_now", "High-priority lead", "high", 0>>
        ELSE _llm_action(response)

\* variant: without the rule for priority "review"
_determine_action_review_to_llm(lead, response) ==
    LET priority == Lower(Get(lead, "priority_tier", "review"))
        stale == Get(lead, "stale_flag", FALSE)
    IN  IF priority = "low" THEN <<"nurture", "Low-priority lead", "high", 0>>
        ELSE IF priority = "high" /\ ~stale
             THEN <<"outreach_now", "High-priority lead", "high", 0>>
        ELSE IF priority = "high" /\ stale
             THEN <<"reengage", "Strong fit but stale", "high", 0>>
        ELSE _llm_action(response)

_determine_action(lead, response) ==
    LET priority == Lower(Get(lead, "priority_tier", "review"))
        stale == Get(lead, "stale_flag", FALSE)
    IN  IF priority = "review" THEN <<"enrich_data", "Insufficient signal", "high", 0>>
        ELSE IF priority = "low" THEN <<"nurture", "Low-priority lead", "high", 0>>
        ELSE IF priority = "high" /\ ~stale
             THEN <<"outreach_now", "High-priority lead", "high", 0>>
        ELSE IF priority = "high" /\ stale
             THEN <<"reengage", "Strong fit but stale", "high", 0>>
        ELSE _llm_action(response)

\* the dict ActionAgent.run returns (out) and the number of generation calls
ActionAgent_run(lead, response) ==
    LET r == _determine_action(lead, response)
    IN  [out |-> [next_action |-> r[1], action_reasoning |-> r[2],
                  action_confidence |-> r[3]],
         llm_calls |-> r[4]]

ActionCallsLLM(lead) == ActionAgent_run(lead, NoResponse).llm_calls > 0

-----------------------------------------------------------------------------
(* The record store: services/notion_service.py and the stub of the tests *)

Stores == {"NotionService", "_StubNotionService"}

PageIds == <<"p1", "p2", "p3", "p4">>
PageContacts == <<-5, -20, PyNone, -60>>
PageNotes == <<{"hiring"}, {}, {"funding", "hiring"}, {}>>

\* stored outputs of a page: never scored, or scored by an earlier run
Unscored == [icp_score |-> PyNone, priority_tier |-> "", next_action |-> ""]
Scored == [icp_score |-> 80, priority_tier |-> "high", next_action |-> "outreach_now"]

Page(i, edited, outputs) ==
    [page_id |-> PageIds[i], last_contacted |-> PageContacts[i], notes |-> PageNotes[i],
     last_edited_time |-> edited, icp_score |-> outputs.icp_score,
     priority_tier |-> outputs.priority_tier, next_action |-> outputs.next_action]

PageIndex(page_id) == CHOOSE i \in 1..Len(PageIds) : PageIds[i] = page_id

NotionService_extract_lead_from_page(page) ==
    [page_id |-> page.page_id, company_name |-> page.page_id,
     notes |-> page.notes, last_contacted |-> page.last_contacted]

\* the leads the tests hand to _StubNotionService: built by their _lead helper
Stub_lead(page) ==
    [page_id |-> page.page_id, company_name |-> page.page_id,
     notes |-> page.notes, last_contacted |-> page.last_contacted,
     last_edited_time |-> page.last_edited_time,
     existing_results |-> [is_dict |-> TRUE, icp_score |-> page.icp_score,
                           priority_tier |-> page.priority_tier,
                           next_action |-> page.next_action]]

fetch_leads(store, ps) ==
    IF store = "NotionService"
    THEN [i \in 1..Len(ps) |-> NotionService_extract_lead_from_page(ps[i])]
    ELSE [i \in 1..Len(ps) |-> Stub_lead(ps[i])]

\* outcomes of update_lead: the page is updated (True), the API rejects the
\* update with an APIResponseError (False), or the retries are exhausted and
\* _update_page raises RuntimeError
UpdateOutcomes(store) ==
    IF store = "NotionService" THEN {"ok", "rejected", "raise"} ELSE {"ok"}

\* the page as pages.update leaves it: the three columns the selector reads
update_page(store, page, properties, clock) ==
    IF store = "NotionService"
    THEN [page EXCEPT !.icp_score = properties.icp_score,
                      !.priority_tier = properties.priority_tier,
                      !.next_action = properties.next_action,
                      !.last_edited_time = clock]
    ELSE page

SampleContact == -400

SAMPLE_LEADS ==
    << [page_id |-> "dry-run-001", company_name |-> "Acme SaaS Corp",
        notes |-> {"funding", "hiring"}, last_contacted |-> SampleContact],
       [page_id |-> "dry-run-002", company_name |-> "TinyStart LLC",
        notes |-> {}, last_contacted |-> PyNone] >>

-----------------------------------------------------------------------------
(* pipeline.py: run_pipeline *)

PipelineResult ==
    [succeeded |-> 0, failed |-> 0, skipped |-> 0, errors |-> <<>>, lead_summaries |-> <<>>]

NoArgs == [limit |-> PyNone, dry_run |-> FALSE, full_refresh |-> FALSE]

NoCur ==
    [icp_results |-> EmptyDict, research_results |-> EmptyDict,
     signal_results |-> EmptyDict, priority_results |-> EmptyDict,
     action_results |-> EmptyDict, signal_in |-> EmptyDict,
     priority_in |-> EmptyDict, action_in |-> EmptyDict]

Limits == {PyNone} \cup 0..MaxLimit

\* variant: full_refresh does not switch the selection off
incremental_mode_ignoring_full_refresh(enabled, dry_run, full_refresh) ==
    enabled /\ ~dry_run

incremental_mode(enabled, dry_run, full_refresh) ==
    enabled /\ ~dry_run /\ ~full_refresh

_load_last_successful_run(file) == _parse_iso_datetime(file)

Selected(ls, last_successful_run) ==
    SelectSeq(ls, LAMBDA lead : _should_process_lead(lead, last_successful_run)[1])

\* variant: the last `limit` leads instead of the first
ApplyLimit_tail(ls, limit) ==
    IF limit = PyNone \/ limit = 0 THEN ls
    ELSE SubSeq(ls, Max2(1, Len(ls) - limit + 1), Len(ls))

\* leads[:limit] under "if limit:"
ApplyLimit(ls, limit) ==
    IF limit = PyNone \/ limit = 0 THEN ls
    ELSE IF limit > 0 THEN SubSeq(ls, 1, Min2(limit, Len(ls)))
    ELSE SubSeq(ls, 1, Max2(0, Len(ls) + limit))

\* the list the batch loop gets from what was fetched
LoopLeads(fetched_leads, a, enabled, file) ==
    LET chosen == IF incremental_mode(enabled, a.dry_run, a.full_refresh)
                  THEN Selected(fetched_leads, _load_last_successful_run(file))
                  ELSE fetched_leads
    IN  ApplyLimit(chosen, a.limit)

SkippedCount(fetched_leads, a, enabled, file) ==
    IF incremental_mode(enabled, a.dry_run, a.full_refresh)
    THEN Len(fetched_leads) - Len(Selected(fetched_leads, _load_last_successful_run(file)))
    ELSE 0

\* a page of the store before the run: never scored, or scored and last
\* edited before time 0, or scored and last edited at time 1
InitialPages(i) == {Page(i, -1, Unscored), Page(i, -1, Scored), Page(i, 1, Scored)}

Init ==
    /\ notion \in Stores
    /\ incremental \in BOOLEAN
    /\ \E n \in 0..MaxLeads :
         pages \in [1..n -> UNION {InitialPages(i) : i \in 1..n}]
    /\ \A i \in 1..Len(pages) : pages[i].page_id = PageIds[i]
    /\ state_file \in {PyNone, 0}
    /\ now = 1
    /\ pc = "idle"
    /\ args = NoArgs
    /\ leads = <<>>
    /\ fetched = <<>>
    /\ idx = 0
    /\ stage = "none"
    /\ cur = NoCur
    /\ result = PipelineResult
    /\ updated = <<>>
    /\ called = {}
    /\ file_at_start = state_file
    /\ runs = 0
    /\ budget = 1
    /\ h_in = EmptyDict
    /\ h_out = EmptyDict

runVars == <<args, leads, fetched, idx, stage, cur, result, updated, called,
             file_at_start, runs, budget>>
harnessVars == <<h_in, h_out>>
cfgVars == <<notion, incremental>>

\* what run_pipeline calls before the batch loop: lines 185-204
StartCalls(a, enabled, got) ==
    IF a.dry_run THEN {}
    ELSE {"validate_database", "fetch_leads"} \cup
         IF got # <<>> /\ incremental_mode(enabled, a.dry_run, a.full_refresh)
         THEN {"_load_last_successful_run"} ELSE {}

\* run_pipeline up to the batch loop: services, validation, fetch, selection, limit
StartRun ==
    /\ pc \in {"idle", "done"}
    /\ budget > 0
    /\ \E limit \in Limits, dry_run \in BOOLEAN, full_refresh \in BOOLEAN :
         LET a == [limit |-> limit, dry_run |-> dry_run, full_refresh |-> full_refresh]
             got == IF dry_run THEN SAMPLE_LEADS ELSE fetch_leads(notion, pages)
             todo == LoopLeads(got, a, incremental, state_file)
         IN  /\ args' = a
             /\ fetched' = got
             /\ runs' = runs + 1
             /\ budget' = budget - 1
             /\ file_at_start' = state_file
             /\ updated' = <<>>
             /\ called' = StartCalls(a, incremental, got)
             /\ cur' = NoCur
             /\ IF ~dry_run /\ got = <<>>
                THEN \* "No leads found": return result
                     /\ result' = PipelineResult
                     /\ leads' = <<>>
                     /\ idx' = 0
                     /\ stage' = "none"
                     /\ pc' = "done"
                ELSE /\ result' = [PipelineResult EXCEPT
                                     !.skipped = SkippedCount(got, a, incremental, state_file)]
                     /\ leads' = todo
                     /\ idx' = IF todo = <<>> THEN 0 ELSE 1
                     /\ stage' = IF todo = <<>> THEN "none" ELSE "icp"
                     /\ pc' = IF todo = <<>> THEN "finish" ELSE "loop"
    /\ UNCHANGED <<cfgVars, pages, state_file, now, harnessVars>>

\* variant: the Signal stage gets the lead alone
lead_without_research(lead, c) == lead

\* the dicts run_pipeline builds for the lead in flight
lead_with_research(lead, c) == Merge(lead, c.research_results)

lead_enriched(lead, c) ==
    Merge(Merge(Merge(lead, c.icp_results), c.research_results), c.signal_results)

lead_with_priority(lead, c) ==
    Merge(Merge(lead_enriched(lead, c), c.priority_results), c.research_results)

all_results(c) ==
    Merge(Merge(Merge(Merge(c.icp_results, c.research_results), c.signal_results),
                c.priority_results), c.action_results)

LeadSummary(lead, c) ==
    [company |-> lead.company_name,
     icp_score |-> Get(c.icp_results, "icp_score", -1),
     priority_tier |-> Get(c.priority_results, "priority_tier", "review"),
     stale |-> Get(c.priority_results, "stale_flag", FALSE)]

InLoop == pc = "loop" /\ idx \in 1..Len(leads)

\* the for loop moves to the next lead, or falls through to the summary
Advance ==
    /\ cur' = NoCur
    /\ IF idx < Len(leads)
       THEN idx' = idx + 1 /\ stage' = "icp" /\ pc' = "loop"
       ELSE idx' = idx /\ stage' = "none" /\ pc' = "finish"

\* variant: a failed lead ends the loop
Failed_stops_batch ==
    /\ result' = [result EXCEPT !.failed = @ + 1,
                                !.errors = Append(@, leads[idx].company_name)]
    /\ cur' = NoCur
    /\ idx' = idx
    /\ stage' = "none"
    /\ pc' = "finish"

\* variant: the lead was already counted as succeeded when its write raises
Failed_counted_twice ==
    /\ result' = [result EXCEPT !.succeeded = @ + 1, !.failed = @ + 1,
                                !.errors = Append(@, leads[idx].company_name)]
    /\ Advance

\* the except clause of the batch loop
Failed ==
    /\ result' = [result EXCEPT !.failed = @ + 1,
                                !.errors = Append(@, leads[idx].company_name)]
    /\ Advance

ICPStage ==
    /\ InLoop /\ stage = "icp"
    /\ \E response \in ICPResponses :
         cur' = [cur EXCEPT !.icp_results = ICPAgent_run(leads[idx], response)]
    /\ stage' = "research"
    /\ UNCHANGED <<cfgVars, pages, state_file, now, pc, args, leads, fetched, idx,
                   result, updated, called, file_at_start, runs, budget, harnessVars>>

ResearchStage ==
    /\ InLoop /\ stage = "research"
    /\ \E response \in ResearchResponses :
         cur' = [cur EXCEPT !.research_results = ResearchAgent_run(leads[idx], response)]
    /\ stage' = "signal"
    /\ UNCHANGED <<cfgVars, pages, state_file, now, pc, args, leads, fetched, idx,
                   result, updated, called, file_at_start, runs, budget, harnessVars>>

SignalStage ==
    /\ InLoop /\ stage = "signal"
    /\ LET input == lead_with_research(leads[idx], cur)
       IN  cur' = [cur EXCEPT !.signal_in = input,
                              !.signal_results = SignalAgent_run(input)]
    /\ stage' = "priority"
    /\ UNCHANGED <<cfgVars, pages, state_file, now, pc, args, leads, fetched, idx,
                   result, updated, called, file_at_start, runs, budget, harnessVars>>

PriorityStage ==
    /\ InLoop /\ stage = "priority"
    /\ LET input == lead_enriched(leads[idx], cur)
       IN  \E response \in IF PriorityCallsLLM(input, now) THEN PriorityResponses
                           ELSE {NoResponse} :
             cur' = [cur EXCEPT !.priority_in = input,
                                !.priority_results =
                                    PriorityAgent_run(input, now, response).out]
    /\ stage' = "action"
    /\ UNCHANGED <<cfgVars, pages, state_file, now, pc, args, leads, fetched, idx,
                   result, updated, called, file_at_start, runs, budget, harnessVars>>

ActionStage ==
    /\ InLoop /\ stage = "action"
    /\ LET input == lead_with_priority(leads[idx], cur)
       IN  \E response \in IF ActionCallsLLM(input) THEN ActionResponses
                           ELSE {NoResponse} :
             cur' = [cur EXCEPT !.action_in = input,
                                !.action_results = ActionAgent_run(input, response).out]
    /\ stage' = "write"
    /\ UNCHANGED <<cfgVars, pages, state_file, now, pc, args, leads, fetched, idx,
                   result, updated, called, file_at_start, runs, budget, harnessVars>>

\* whether the stage about to run calls the text-generation service
StageCallsLLM ==
    \/ stage \in {"icp", "research"}
    \/ stage = "priority" /\ PriorityCallsLLM(lead_enriched(leads[idx], cur), now)
    \/ stage = "action" /\ ActionCallsLLM(lead_with_priority(leads[idx], cur))

\* the generation call of the current stage raises (retries exhausted, or a
\* non-retryable API error): the agent lets it propagate
AgentRaises ==
    /\ InLoop /\ StageCallsLLM
    /\ Failed
    /\ UNCHANGED <<cfgVars, pages, state_file, now, args, leads, fetched,
                   updated, called, file_at_start, runs, budget, harnessVars>>

Succeeded ==
    /\ result' = [result EXCEPT !.succeeded = @ + 1,
                                !.lead_summaries = Append(@, LeadSummary(leads[idx], cur))]
    /\ Advance

\* "Write back to Notion (skip in dry-run)" and the bookkeeping after it
WriteStage ==
    /\ InLoop /\ stage = "write"
    /\ IF ~args.dry_run
       THEN \E outcome \in UpdateOutcomes(notion) :
              LET i == PageIndex(leads[idx].page_id)
              IN  /\ called' = called \cup {"update_lead"}
                  /\
                    CASE outcome = "ok" ->
                         /\ pages' = [pages EXCEPT
                                        ![i] = update_page(notion, @, all_results(cur), now)]
                         /\ updated' = Append(updated, leads[idx].page_id)
                         /\ Succeeded
                    [] outcome = "rejected" ->
                         /\ UNCHANGED <<pages, updated>>
                         /\ Succeeded
                    [] OTHER ->
                         /\ UNCHANGED <<pages, updated>>
                         /\ Failed
       ELSE /\ Succeeded
            /\ UNCHANGED <<pages, updated, called>>
    /\ UNCHANGED <<cfgVars, state_file, now, args, leads, fetched,
                   file_at_start, runs, budget, harnessVars>>

\* variant: the timestamp is saved whatever failed
SavesState_ignoring_failures(a, enabled, r) == ~a.dry_run /\ enabled

\* variant: a dry run saves the timestamp as well
SavesState_in_dry_run(a, enabled, r) == enabled /\ r.failed = 0

\* whether the end of run_pipeline calls _save_last_successful_run
SavesState(a, enabled, r) == ~a.dry_run /\ enabled /\ r.failed = 0

\* the summary and the run-state persistence; the write of the state file may
\* fail with OSError, which is logged
FinishRun ==
    /\ pc = "finish"
    /\ IF SavesState(args, incremental, result)
       THEN /\ \E written \in BOOLEAN : state_file' = IF written THEN now ELSE state_file
            /\ called' = called \cup {"_save_last_successful_run"}
       ELSE UNCHANGED <<state_file, called>>
    /\ pc' = "done"
    /\ UNCHANGED <<cfgVars, pages, now, args, leads, fetched, idx, stage, cur, result,
                   updated, file_at_start, runs, budget, harnessVars>>

-----------------------------------------------------------------------------
(* The environment *)

Tick ==
    /\ now < MaxTime
    /\ now' = now + 1
    /\ UNCHANGED <<cfgVars, pages, state_file, pc, runVars, harnessVars>>

\* a user edits a page of the store
EditLead ==
    /\ \E i \in 1..Len(pages) :
         /\ pages[i].last_edited_time < now
         /\ pages' = [pages EXCEPT ![i].last_edited_time = now]
    /\ UNCHANGED <<cfgVars, state_file, now, pc, runVars, harnessVars>>

Next ==
    \/ StartRun
    \/ ICPStage
    \/ ResearchStage
    \/ SignalStage
    \/ PriorityStage
    \/ ActionStage
    \/ AgentRaises
    \/ WriteStage
    \/ FinishRun
    \/ Tick

Spec == Init /\ [][Next]_vars

\* Repeated runs against the Notion database, with users editing pages
\* between and during them.
RepeatInit ==
    /\ notion = "NotionService"
    /\ incremental = TRUE
    /\ \E n \in 0..MaxRepeatLeads :
         pages \in [1..n -> UNION {InitialPages(i) : i \in 1..n}]
    /\ \A i \in 1..Len(pages) : pages[i].page_id = PageIds[i]
    /\ state_file \in {PyNone, 0}
    /\ now = 1
    /\ pc = "idle"
    /\ args = NoArgs
    /\ leads = <<>>
    /\ fetched = <<>>
    /\ idx = 0
    /\ stage = "none"
    /\ cur = NoCur
    /\ result = PipelineResult
    /\ updated = <<>>
    /\ called = {}
    /\ file_at_start = state_file
    /\ runs = 0
    /\ budget = MaxRuns
    /\ h_in = EmptyDict
    /\ h_out = EmptyDict

RepeatNext ==
    \/ Next
    \/ EditLead

RepeatSpec == RepeatInit /\ [][RepeatNext]_vars

\* Repeated incremental runs over leads that carry their stored results and
\* edit times, as the leads of the pipeline tests do, with users editing pages
\* between and during the runs.
IncInit ==
    /\ notion = "_StubNotionService"
    /\ incremental = TRUE
    /\ \E n \in 0..MaxLeads :
         pages \in [1..n -> UNION {InitialPages(i) : i \in 1..n}]
    /\ \A i \in 1..Len(pages) : pages[i].page_id = PageIds[i]
    /\ state_file \in {PyNone, 0}
    /\ now = 1
    /\ pc = "idle"
    /\ args = NoArgs
    /\ leads = <<>>
    /\ fetched = <<>>
    /\ idx = 0
    /\ stage = "none"
    /\ cur = NoCur
    /\ result = PipelineResult
    /\ updated = <<>>
    /\ called = {}
    /\ file_at_start = state_file
    /\ runs = 0
    /\ budget = MaxRuns
    /\ h_in = EmptyDict
    /\ h_out = EmptyDict

IncNext ==
    \/ Next
    \/ EditLead

IncSpec == IncInit /\ [][IncNext]_vars

\* Repeated incremental runs against the store of the tests, whose leads carry
\* their stored outputs, over pages that an earlier run may have left with the
\* ICP sentinel, edited before or after the stored run timestamp.
RerunInit ==
    /\ notion = "_StubNotionService"
    /\ incremental = TRUE
    /\ \E n \in 0..MaxRepeatLeads :
         pages \in [1..n -> UNION {InitialPages(i) \cup
                                   {Page(i, -1, ParseFailed), Page(i, 1, ParseFailed)} :
                                   i \in 1..n}]
    /\ \A i \in 1..Len(pages) : pages[i].page_id = PageIds[i]
    /\ state_file \in {PyNone, 0}
    /\ now = 1
    /\ pc = "idle"
    /\ args = NoArgs
    /\ leads = <<>>
    /\ fetched = <<>>
    /\ idx = 0
    /\ stage = "none"
    /\ cur = NoCur
    /\ result = PipelineResult
    /\ updated = <<>>
    /\ called = {}
    /\ file_at_start = state_file
    /\ runs = 0
    /\ budget = MaxRuns
    /\ h_in = EmptyDict
    /\ h_out = EmptyDict

RerunNext == Next

RerunSpec == RerunInit /\ [][RerunNext]_vars

-----------------------------------------------------------------------------
(* run_pipeline under main, interrupted by the user during the batch loop *)

\* variant: the except clause of the loop catches every exception
LoopCatches_everything(exception) == TRUE

\* pipeline.py line 313, "except Exception": KeyboardInterrupt derives from
\* BaseException and passes through
LoopCatches(exception) == exception = "Exception"

\* main.py lines 101-106: the exit code when run_pipeline raises
main_exit_on(exception) == IF exception = "KeyboardInterrupt" THEN 0 ELSE 1

IntInit ==
    /\ notion = "NotionService"
    /\ incremental = TRUE
    /\ \E n \in 0..MaxLeads :
         pages \in [1..n -> UNION {InitialPages(i) : i \in 1..n}]
    /\ \A i \in 1..Len(pages) : pages[i].page_id = PageIds[i]
    /\ state_file \in {PyNone, 0}
    /\ now = 1
    /\ pc = "idle"
    /\ args = NoArgs
    /\ leads = <<>>
    /\ fetched = <<>>
    /\ idx = 0
    /\ stage = "none"
    /\ cur = NoCur
    /\ result = PipelineResult
    /\ updated = <<>>
    /\ called = {}
    /\ file_at_start = state_file
    /\ runs = 0
    /\ budget = 1
    /\ h_in = EmptyDict
    /\ h_out = EmptyDict

\* Ctrl-C while lead idx is in flight.  The exception leaves the try block
\* of the loop and run_pipeline, and main exits; when it arrives during
\* update_lead the store may or may not have applied the update.
Interrupt ==
    /\ InLoop
    /\ LET exception == "KeyboardInterrupt"
       IN  IF LoopCatches(exception)
           THEN /\ Failed
                /\ h_out' = [interrupted |-> TRUE, exit_code |-> PyNone]
                /\ UNCHANGED <<pages, updated, called>>
           ELSE /\ pc' = "exited"
                /\ h_out' = [interrupted |-> TRUE, exit_code |-> main_exit_on(exception)]
                /\ IF stage = "write" /\ ~args.dry_run
                   THEN \E applied \in BOOLEAN :
                          LET i == PageIndex(leads[idx].page_id)
                          IN  /\ called' = called \cup {"update_lead"}
                              /\ pages' = IF applied
                                          THEN [pages EXCEPT ![i] =
                                                  update_page(notion, @, all_results(cur), now)]
                                          ELSE pages
                              /\ updated' = IF applied
                                            THEN Append(updated, leads[idx].page_id)
                                            ELSE updated
                   ELSE UNCHANGED <<pages, updated, called>>
                /\ UNCHANGED <<idx, stage, cur, result>>
    /\ UNCHANGED <<cfgVars, state_file, now, args, leads, fetched, file_at_start,
                   runs, budget, h_in>>

IntNext ==
    \/ Next
    \/ Interrupt

IntSpec == IntInit /\ [][IntNext]_vars

-----------------------------------------------------------------------------
(* Function harnesses: one call of a function on arguments drawn from a      *)
(* bounded set, with the pipeline at rest.                                   *)

AtRest ==
    /\ notion = "NotionService"
    /\ incremental = TRUE
    /\ pages = <<>>
    /\ state_file = PyNone
    /\ now = 0
    /\ args = NoArgs
    /\ leads = <<>>
    /\ fetched = <<>>
    /\ idx = 0
    /\ stage = "none"
    /\ cur = NoCur
    /\ result = PipelineResult
    /\ updated = <<>>
    /\ called = {}
    /\ file_at_start = PyNone
    /\ runs = 0
    /\ budget = 0

restVars == <<cfgVars, pages, state_file, now, runVars>>

\* _should_process_lead(lead, last_successful_run)
SelResults ==
    {NoResults} \cup
    [is_dict : {TRUE}, icp_score : {PyNone, NotNumeric, -1, 0, 80},
     priority_tier : {NoneStr, "", " ", "high"}, next_action : {"", "nurture"}]

SelLeads ==
    {[page_id |-> "p1", company_name |-> "p1"]} \cup
    [page_id : {"p1"}, company_name : {"p1"}, existing_results : SelResults,
     last_edited_time : {PyNone, BadIso} \cup 0..MaxTime]

SelInit ==
    /\ AtRest
    /\ pc = "sel_call"
    /\ h_in \in [lead : SelLeads, last_successful_run : {PyNone} \cup 0..MaxTime]
    /\ h_out = EmptyDict

SelApply ==
    /\ pc = "sel_call"
    /\ h_out' = _should_process_lead(h_in.lead, h_in.last_successful_run)
    /\ pc' = "sel_returned"
    /\ UNCHANGED <<restVars, h_in>>

SelNext == SelApply

SelSpec == SelInit /\ [][SelNext]_vars

\* PriorityAgent.run(lead) at time clock, with the generation response it
\* would get if it asked for one
PrioLeads ==
    [company_name : {"p1"},
     icp_score : {PyNone, -7, -1, 0, LOW_ICP_MAX, LOW_ICP_MAX + 1, HIGH_ICP_MIN - 1,
                  HIGH_ICP_MIN, 100},
     last_contacted : {PyNone, BadIso, -5, -HIGH_RECENCY_MAX, 1 - STALE_DAYS_THRESHOLD,
                       -20, 1 - LOW_STALE_DAYS, -60},
     signal_strength : {"none", "medium", "high"}]

PrioInit ==
    /\ AtRest
    /\ pc = "prio_call"
    /\ h_in \in [lead : PrioLeads, clock : 0..MaxTime,
                 response : PriorityResponses \cup {[json |-> TRUE]}
                            \cup [json : {TRUE}, priority_tier : {"high", "HIGH"}]]
    /\ h_out = EmptyDict

PrioApply ==
    /\ pc = "prio_call"
    /\ h_out' = PriorityAgent_run(h_in.lead, h_in.clock, h_in.response)
    /\ pc' = "prio_returned"
    /\ UNCHANGED <<restVars, h_in>>

PrioNext == PrioApply

PrioSpec == PrioInit /\ [][PrioNext]_vars

\* ICPAgent.run(lead) with the generation response it gets
IcpDimensionScores ==
    {EmptyDict, [d \in {DIMENSIONS[1]} |-> 999]} \cup
    [{DIMENSIONS[i] : i \in 1..Len(DIMENSIONS)} -> {-5, 7, DIMENSION_MAX, 999}]

IcpHarnessResponses ==
    {[json |-> FALSE], [json |-> TRUE]} \cup
    [json : {TRUE}, confidence_score : {-3, 70, SCORE_MAX + 1},
     dimension_scores : IcpDimensionScores] \cup
    [json : {TRUE}, icp_score : {-50, 0, 80, 250}, confidence_score : {70},
     dimension_scores : IcpDimensionScores]

IcpInit ==
    /\ AtRest
    /\ pc = "icp_call"
    /\ h_in \in [lead : {[company_name |-> "p1", notes |-> {}]},
                 response : IcpHarnessResponses]
    /\ h_out = EmptyDict

IcpApply ==
    /\ pc = "icp_call"
    /\ h_out' = ICPAgent_run(h_in.lead, h_in.response)
    /\ pc' = "icp_returned"
    /\ UNCHANGED <<restVars, h_in>>

IcpNext == IcpApply

IcpSpec == IcpInit /\ [][IcpNext]_vars

\* One structured agent call on the text of a generation response: h_out tells
\* whether the agent raised, and what it returned.
RawResponses(data) ==
    [fence : {"none"}, newline : {FALSE}, closed : {FALSE}, body : Bodies,
     data : {data}] \cup
    [fence : {"json", "plain"}, newline : BOOLEAN, closed : BOOLEAN, body : Bodies,
     data : {data}]

ParseCalls ==
    [agent : {"icp"}, lead : {[company_name |-> "p1", notes |-> {}]},
     raw : RawResponses([json |-> TRUE, icp_score |-> 80, confidence_score |-> 70])] \cup
    [agent : {"priority"},
     lead : {[company_name |-> "p1", icp_score |-> LOW_ICP_MAX + 1,
              last_contacted |-> -20, signal_strength |-> "none"]},
     raw : RawResponses([json |-> TRUE, priority_tier |-> "low"])] \cup
    [agent : {"action"},
     lead : {[company_name |-> "p1", priority_tier |-> "medium", stale_flag |-> TRUE]},
     raw : RawResponses([json |-> TRUE, next_action |-> "hold",
                         action_confidence |-> "high"])]

\* the agent on the text: data.get on a list raises AttributeError
AgentOnText(call) ==
    LET parsed == _parse_json_response(call.raw)
        response == IF parsed = "dict" THEN call.raw.data ELSE [json |-> FALSE]
    IN  IF parsed \in {"raise", "nondict"} THEN [raised |-> TRUE, out |-> EmptyDict]
        ELSE [raised |-> FALSE,
              out |-> CASE call.agent = "icp" -> ICPAgent_run(call.lead, response)
                        [] call.agent = "priority" ->
                               PriorityAgent_run(call.lead, 0, response).out
                        [] OTHER -> ActionAgent_run(call.lead, response).out]

ParseInit ==
    /\ AtRest
    /\ pc = "parse_call"
    /\ h_in \in ParseCalls
    /\ h_out = EmptyDict

ParseApply ==
    /\ pc = "parse_call"
    /\ h_out' = AgentOnText(h_in)
    /\ pc' = "parse_returned"
    /\ UNCHANGED <<restVars, h_in>>

ParseNext == ParseApply

ParseSpec == ParseInit /\ [][ParseNext]_vars

\* ActionAgent.run(lead), with the generation response it would get if it
\* asked for one
ActLeads ==
    {[company_name |-> "p1"]} \cup
    [company_name : {"p1"},
     priority_tier : {"review", "low", "high", "HIGH", "medium", "urgent"}] \cup
    [company_name : {"p1"},
     priority_tier : {"review", "low", "high", "HIGH", "medium", "urgent"},
     stale_flag : BOOLEAN]

ActResponses ==
    {[json |-> FALSE], [json |-> TRUE]} \cup
    [json : {TRUE}, action_reasoning : [len : {0, REASONING_MAX + 1}]] \cup
    [json : {TRUE}, next_action : {"hold", "HOLD", "call_ceo", "outreach_now"},
     action_confidence : {"high", "Low", "certain"},
     action_reasoning : [len : {0, REASONING_MAX, REASONING_MAX + 1}]]

ActInit ==
    /\ AtRest
    /\ pc = "act_call"
    /\ h_in \in [lead : ActLeads, response : ActResponses]
    /\ h_out = EmptyDict

ActApply ==
    /\ pc = "act_call"
    /\ h_out' = ActionAgent_run(h_in.lead, h_in.response)
    /\ pc' = "act_returned"
    /\ UNCHANGED <<restVars, h_in>>

ActNext == ActApply

ActSpec == ActInit /\ [][ActNext]_vars

-----------------------------------------------------------------------------
(* WebResearchService.research_lead, one provider of the order at a time *)

_MAX_CONTENT_CHARS == 12000
TRUNCATION_NOTE_CHARS == 33  \* len("\n\n[Content truncated for brevity]")
_SUPPORTED_PROVIDERS == {"website", "brave"}

\* texts are modelled by their length
_truncate(chars) ==
    IF chars <= _MAX_CONTENT_CHARS THEN chars
    ELSE _MAX_CONTENT_CHARS + TRUNCATION_NOTE_CHARS

Websites == {"", "w.com"}

_normalize_url(url) == IF url = "w.com" THEN "https://w.com" ELSE url

WebResearchResult ==
    [website_content |-> 0, search_results |-> 0, pages_fetched |-> 0,
     source_urls |-> <<>>, provider_trace |-> <<>>, errors |-> <<>>]

_combined_chars(res) == res.website_content + res.search_results

\* what _scrape_website does: it raises, or returns a text after some requests
ScrapeOutcomes ==
    {[kind |-> "raise"]} \cup
    [kind : {"content"}, chars : {0, 400, 5000, 13000}, requests : 1..2]

\* what _brave_search does: it raises, or returns a text and its urls
SearchOutcomes ==
    {[kind |-> "raise"], [kind |-> "content", chars |-> 0, urls |-> <<>>]} \cup
    [kind : {"content"}, chars : {600},
     urls : {<<"https://w.com">>, <<"https://b.com", "https://b.com">>}]

\* variant: the exception of the scrape is not caught
_run_website_provider_uncaught(res, website, scraped) ==
    IF website = "" THEN
        [raised |-> FALSE,
         result |-> [res EXCEPT !.provider_trace = Append(@,
             [provider |-> "website", status |-> "skipped",
              reason |-> "missing_website"])]]
    ELSE IF scraped.kind = "raise" THEN [raised |-> TRUE, result |-> res]
    ELSE IF scraped.chars > 0 THEN
        [raised |-> FALSE,
         result |-> [res EXCEPT
             !.website_content = _truncate(scraped.chars),
             !.pages_fetched = scraped.requests,
             !.source_urls = Append(@, _normalize_url(website)),
             !.provider_trace = Append(@,
                 [provider |-> "website", status |-> "success",
                  chars |-> _truncate(scraped.chars),
                  pages_fetched |-> scraped.requests])]]
    ELSE [raised |-> FALSE,
          result |-> [res EXCEPT !.provider_trace = Append(@,
              [provider |-> "website", status |-> "no_content"])]]

\* raised tells whether an exception leaves the provider
_run_website_provider(res, website, scraped) ==
    IF website = "" THEN
        [raised |-> FALSE,
         result |-> [res EXCEPT !.provider_trace = Append(@,
             [provider |-> "website", status |-> "skipped",
              reason |-> "missing_website"])]]
    ELSE IF scraped.kind = "raise" THEN
        [raised |-> FALSE,
         result |-> [res EXCEPT
             !.errors = Append(@, "website provider failed: exc"),
             !.provider_trace = Append(@,
                 [provider |-> "website", status |-> "error", error |-> "exc"])]]
    ELSE IF scraped.chars > 0 THEN
        [raised |-> FALSE,
         result |-> [res EXCEPT
             !.website_content = _truncate(scraped.chars),
             !.pages_fetched = scraped.requests,
             !.source_urls = Append(@, _normalize_url(website)),
             !.provider_trace = Append(@,
                 [provider |-> "website", status |-> "success",
                  chars |-> _truncate(scraped.chars),
                  pages_fetched |-> scraped.requests])]]
    ELSE [raised |-> FALSE,
          result |-> [res EXCEPT !.provider_trace = Append(@,
              [provider |-> "website", status |-> "no_content"])]]

_run_brave_provider(res, brave_api_key, company_name, searched) ==
    IF brave_api_key = "" THEN
        [raised |-> FALSE,
         result |-> [res EXCEPT !.provider_trace = Append(@,
             [provider |-> "brave", status |-> "skipped",
              reason |-> "missing_api_key"])]]
    ELSE IF company_name = "" THEN
        [raised |-> FALSE,
         result |-> [res EXCEPT !.provider_trace = Append(@,
             [provider |-> "brave", status |-> "skipped",
              reason |-> "missing_company_name"])]]
    ELSE IF searched.kind = "raise" THEN
        [raised |-> FALSE,
         result |-> [res EXCEPT
             !.errors = Append(@, "brave provider failed: exc"),
             !.provider_trace = Append(@,
                 [provider |-> "brave", status |-> "error", error |-> "exc"])]]
    ELSE IF searched.chars > 0 THEN
        [raised |-> FALSE,
         result |-> [res EXCEPT
             !.search_results = searched.chars,
             !.source_urls = @ \o searched.urls,
             !.provider_trace = Append(@,
                 [provider |-> "brave", status |-> "success",
                  chars |-> searched.chars,
                  source_count |-> Len(searched.urls)])]]
    ELSE [raised |-> FALSE,
          result |-> [res EXCEPT !.provider_trace = Append(@,
              [provider |-> "brave", status |-> "no_content"])]]

\* variant: the threshold has to be exceeded
StopThresholdReached_exceeded(service, res) ==
    ~service.run_all_providers /\ _combined_chars(res) > service.target_chars

\* the test after each provider
StopThresholdReached(service, res) ==
    ~service.run_all_providers /\ _combined_chars(res) >= service.target_chars

\* list(dict.fromkeys(urls)): the first occurrence of each url, in order
RECURSIVE Dedupe(_)
Dedupe(urls) ==
    IF urls = <<>> THEN <<>>
    ELSE LET front == Dedupe(SubSeq(urls, 1, Len(urls) - 1))
             last == urls[Len(urls)]
         IN  IF \E k \in 1..Len(front) : front[k] = last THEN front
             ELSE Append(front, last)

ProviderOrders ==
    UNION {[1..n -> _SUPPORTED_PROVIDERS] : n \in 0..MaxProviders}

TargetChars == {0, 1000, 5400}

\* h_in is the service and the lead; h_out the result being built, the index
\* of the next provider, whether the loop was left by break, and the calls
\* made to _scrape_website and _brave_search
WebInit ==
    /\ AtRest
    /\ pc = "web_call"
    /\ h_in \in [website : Websites, company_name : {"", "Acme"},
                 brave_api_key : {"", "key"}, provider_order : ProviderOrders,
                 target_chars : TargetChars, run_all_providers : BOOLEAN]
    /\ h_out = EmptyDict

research_lead_enter ==
    /\ pc = "web_call"
    /\ pc' = "web_loop"
    /\ h_out' = [result |-> WebResearchResult, i |-> 1, stopped |-> FALSE,
                 calls |-> <<>>]
    /\ UNCHANGED <<restVars, h_in>>

AtProvider(provider) ==
    /\ pc = "web_loop"
    /\ ~h_out.stopped
    /\ h_out.i <= Len(h_in.provider_order)
    /\ h_in.provider_order[h_out.i] = provider

\* the rest of the loop body, after the provider returned ran
AfterProvider(ran, calls) ==
    IF ran.raised THEN
        /\ pc' = "web_raised"
        /\ h_out' = [h_out EXCEPT !.result = ran.result, !.calls = calls]
    ELSE
        LET stop == StopThresholdReached(h_in, ran.result)
        IN  /\ pc' = "web_loop"
            /\ h_out' =
                 [result |->
                      IF stop THEN
                          [ran.result EXCEPT !.provider_trace = Append(@,
                              [provider |-> "waterfall",
                               status |-> "stop_threshold_reached",
                               combined_chars |-> _combined_chars(ran.result),
                               target_chars |-> h_in.target_chars])]
                      ELSE ran.result,
                  i |-> h_out.i + 1, stopped |-> stop, calls |-> calls]

WebsiteStep ==
    /\ AtProvider("website")
    /\ \E scraped \in ScrapeOutcomes :
          AfterProvider(_run_website_provider(h_out.result, h_in.website, scraped),
                        IF h_in.website = "" THEN h_out.calls
                        ELSE Append(h_out.calls, "_scrape_website"))
    /\ UNCHANGED <<restVars, h_in>>

BraveStep ==
    /\ AtProvider("brave")
    /\ \E searched \in SearchOutcomes :
          AfterProvider(_run_brave_provider(h_out.result, h_in.brave_api_key,
                                            h_in.company_name, searched),
                        IF h_in.brave_api_key = "" \/ h_in.company_name = ""
                        THEN h_out.calls
                        ELSE Append(h_out.calls, "_brave_search"))
    /\ UNCHANGED <<restVars, h_in>>

research_lead_return ==
    /\ pc = "web_loop"
    /\ h_out.stopped \/ h_out.i > Len(h_in.provider_order)
    /\ pc' = "web_returned"
    /\ h_out' = [h_out EXCEPT !.result.source_urls = Dedupe(@)]
    /\ UNCHANGED <<restVars, h_in>>

WebNext == research_lead_enter \/ WebsiteStep \/ BraveStep \/ research_lead_return

WebSpec == WebInit /\ [][WebNext]_vars

-----------------------------------------------------------------------------
(* WebResearchService._fetch_and_parse on one instance: cache, robots, delay *)

FetchUrls == {"https://a.com", "https://a.com/about", "https://b.com"}

\* f"{parsed.scheme}://{parsed.netloc}/robots.txt"
RobotsUrl(url) ==
    IF url = "https://b.com" THEN "https://b.com/robots.txt"
    ELSE "https://a.com/robots.txt"

RobotsUrls == {RobotsUrl(url) : url \in FetchUrls}

\* what rp.read() finds: it raises (readable FALSE), or rules that disallow
\* some urls of the host
RobotsFiles(robots_url) ==
    {[readable |-> FALSE, disallow |-> {}]} \cup
    [readable : {TRUE},
     disallow : SUBSET {url \in FetchUrls : RobotsUrl(url) = robots_url}]

\* what httpx.get and raise_for_status do: one of the three caught
\* exceptions, or a page whose extracted text is given
HttpOutcomes ==
    [kind : {"TimeoutException", "HTTPStatusError", "RequestError"}, text : {""}] \cup
    [kind : {"response"}, text : {"", "t1", "t2"}]

\* the fields of the instance that _fetch_and_parse uses
NewService == [_cache |-> EmptyDict, _robot_parsers |-> EmptyDict, _request_count |-> 0]

\* allowed: the answer; parsers: self._robot_parsers afterwards; read: the
\* robots.txt urls read by this call. A parser that could not be read is
\* stored with readable FALSE (None)
_is_allowed(service, robots, url) ==
    LET robots_url == RobotsUrl(url)
        known == robots_url \in DOMAIN service._robot_parsers
        parser == IF known THEN service._robot_parsers[robots_url]
                  ELSE robots[robots_url]
    IN  [allowed |-> ~parser.readable \/ url \notin parser.disallow,
         parsers |-> IF known THEN service._robot_parsers
                     ELSE (robots_url :> parser) @@ service._robot_parsers,
         read |-> IF known THEN <<>> ELSE <<robots_url>>]

\* variant: a fetch that failed is not stored in the cache
_fetch_and_parse_failures_uncached(service, robots, url, http) ==
    IF url \in DOMAIN service._cache THEN
        [service |-> service, returned |-> service._cache[url],
         read |-> <<>>, requested |-> <<>>, slept |-> 0]
    ELSE
        LET checked == _is_allowed(service, robots, url)
            withParsers == [service EXCEPT !._robot_parsers = checked.parsers]
        IN  IF ~checked.allowed THEN
                [service |-> [withParsers EXCEPT !._cache = (url :> "") @@ @],
                 returned |-> "", read |-> checked.read, requested |-> <<>>,
                 slept |-> 0]
            ELSE
                [service |-> [withParsers EXCEPT
                     !._request_count = @ + 1,
                     !._cache = IF http.kind = "response"
                                THEN (url :> http.text) @@ @ ELSE @],
                 returned |-> http.text, read |-> checked.read,
                 requested |-> <<url>>,
                 slept |-> IF service._request_count > 0 THEN 1 ELSE 0]

\* service: the instance afterwards; returned: the text returned; read: the
\* robots.txt urls read; requested: the page requests issued; slept: the
\* number of time.sleep(self.delay) calls
_fetch_and_parse(service, robots, url, http) ==
    IF url \in DOMAIN service._cache THEN
        [service |-> service, returned |-> service._cache[url],
         read |-> <<>>, requested |-> <<>>, slept |-> 0]
    ELSE
        LET checked == _is_allowed(service, robots, url)
            withParsers == [service EXCEPT !._robot_parsers = checked.parsers]
        IN  IF ~checked.allowed THEN
                [service |-> [withParsers EXCEPT !._cache = (url :> "") @@ @],
                 returned |-> "", read |-> checked.read, requested |-> <<>>,
                 slept |-> 0]
            ELSE
                [service |-> [withParsers EXCEPT
                     !._request_count = @ + 1,
                     !._cache = (url :> http.text) @@ @],
                 returned |-> http.text, read |-> checked.read,
                 requested |-> <<url>>,
                 slept |-> IF service._request_count > 0 THEN 1 ELSE 0]

\* variant: the request count of the previous lead is kept
research_lead_reset_kept(service) == service

\* research_lead starts a lead: self._request_count = 0
research_lead_reset(service) == [service EXCEPT !._request_count = 0]

\* h_in is the robots.txt of each host; h_out the instance and what it has
\* done: the page requests and the robots.txt reads in order, the number of
\* sleeps, the page requests of the current lead, the fetches so far, and
\* the last fetch with its answer
FetchInit ==
    /\ AtRest
    /\ pc = "fetching"
    /\ h_in \in {robots \in [RobotsUrls -> UNION {RobotsFiles(r) : r \in RobotsUrls}] :
                    \A r \in RobotsUrls : robots[r] \in RobotsFiles(r)}
    /\ h_out = [service |-> NewService, requests |-> <<>>, robots_reads |-> <<>>,
                sleeps |-> 0, lead_requests |-> 0, fetches |-> 0,
                url |-> "", returned |-> ""]

FetchLeadStart ==
    /\ pc = "fetching"
    /\ h_out.lead_requests > 0
    /\ h_out.fetches < MaxFetches
    /\ h_out' = [h_out EXCEPT !.service = research_lead_reset(@),
                              !.lead_requests = 0]
    /\ UNCHANGED <<restVars, h_in, pc>>

FetchUrl ==
    /\ pc = "fetching"
    /\ h_out.fetches < MaxFetches
    /\ \E url \in FetchUrls, http \in HttpOutcomes :
          LET done == _fetch_and_parse(h_out.service, h_in, url, http)
          IN  h_out' = [service |-> done.service,
                        requests |-> h_out.requests \o done.requested,
                        robots_reads |-> h_out.robots_reads \o done.read,
                        sleeps |-> h_out.sleeps + done.slept,
                        lead_requests |-> h_out.lead_requests + Len(done.requested),
                        fetches |-> h_out.fetches + 1,
                        url |-> url, returned |-> done.returned]
    /\ UNCHANGED <<restVars, h_in, pc>>

FetchNext == FetchLeadStart \/ FetchUrl

FetchSpec == FetchInit /\ [][FetchNext]_vars

-----------------------------------------------------------------------------
(* ResearchAgent.run with the web research spelled out: confidence, citations *)

\* notes are modelled by their length: spaces around chars other characters
ResNotes == [spaces : 0..1, chars : {0, 119, 120}]

ResLeads ==
    [company_name : {"", " ", "Acme"}, website : {"", " ", "https://w.com"},
     notes : ResNotes]

\* self.web_research is None (kind "none"), research_lead raises, or it
\* returns a result
ResWebResults ==
    [website_content : {0, 400}, search_results : {0, 600}, pages_fetched : 0..2,
     source_urls : {<<>>, <<"https://w.com">>, <<"https://w.com", "https://b.com">>}]

ResWebOutcomes ==
    {[kind |-> "none"], [kind |-> "raise"]} \cup
    [kind : {"result"}, result : ResWebResults]

NoWebResult == [is_none |-> TRUE]

\* variant: the exception of research_lead is not caught
GatherWeb_uncaught(web) ==
    CASE web.kind = "none" -> [raised |-> FALSE, web_result |-> NoWebResult]
      [] web.kind = "raise" -> [raised |-> TRUE, web_result |-> NoWebResult]
      [] OTHER -> [raised |-> FALSE, web_result |-> web.result]

\* the try block of run: web_result, and whether an exception leaves it
GatherWeb(web) ==
    CASE web.kind = "none" -> [raised |-> FALSE, web_result |-> NoWebResult]
      [] web.kind = "raise" -> [raised |-> FALSE, web_result |-> NoWebResult]
      [] OTHER -> [raised |-> FALSE, web_result |-> web.result]

HasResult(web_result) == "is_none" \notin DOMAIN web_result

QualityScore(lead, web_result) ==
    (IF Strip(lead.company_name) # "" THEN 1 ELSE 0)
    + (IF lead.website # "" THEN 1 ELSE 0)
    + (IF lead.notes.chars > 0 THEN 1 ELSE 0)
    + (IF lead.notes.chars >= 120 THEN 1 ELSE 0)
    + (IF HasResult(web_result) /\ web_result.website_content > 0 THEN 2 ELSE 0)
    + (IF HasResult(web_result) /\ web_result.pages_fetched >= 2 THEN 1 ELSE 0)
    + (IF HasResult(web_result) /\ web_result.search_results > 0 THEN 1 ELSE 0)

\* variant: high needs a score above 6
_assess_data_quality_above(lead, web_result) ==
    LET score == QualityScore(lead, web_result)
    IN  IF score > 6 THEN "high" ELSE IF score >= 3 THEN "medium" ELSE "low"

_assess_data_quality(lead, web_result) ==
    LET score == QualityScore(lead, web_result)
    IN  IF score >= 6 THEN "high" ELSE IF score >= 3 THEN "medium" ELSE "low"

\* the entries are strings: f"Website: {website}", "CRM Notes", and the urls
CitationEntries(lead, web_result) ==
    (IF Strip(lead.website) # ""
     THEN <<[text |-> "Website: ", url |-> Strip(lead.website)]>> ELSE <<>>)
    \o (IF lead.notes.chars > 0 THEN <<[text |-> "CRM Notes", url |-> ""]>> ELSE <<>>)
    \o (IF HasResult(web_result)
        THEN [k \in 1..Len(web_result.source_urls) |->
                 [text |-> "", url |-> web_result.source_urls[k]]]
        ELSE <<>>)

_build_citations(lead, web_result) == Dedupe(CitationEntries(lead, web_result))

\* the rest of run, after the try block; sources tells whether the
\* "## SOURCES" section is appended to the response
ResearchAgent_run_web(lead, web_result, response) ==
    LET citations == _build_citations(lead, web_result)
    IN  [research_brief |-> [response |-> response, sources |-> citations # <<>>,
                             listed |-> citations],
         research_confidence |-> _assess_data_quality(lead, web_result),
         research_citations |-> citations,
         research_source_count |-> Len(citations)]

ResInit ==
    /\ AtRest
    /\ pc = "res_call"
    /\ h_in \in [lead : ResLeads, web : ResWebOutcomes, response : {"brief"}]
    /\ h_out = EmptyDict

\* lines 36-54 of run
ResWebStep ==
    /\ pc = "res_call"
    /\ LET gathered == GatherWeb(h_in.web)
       IN  /\ pc' = IF gathered.raised THEN "res_raised" ELSE "res_web_done"
           /\ h_out' = [web_result |-> gathered.web_result, llm_calls |-> 0]
    /\ UNCHANGED <<restVars, h_in>>

\* lines 56-91 of run
ResGenerateStep ==
    /\ pc = "res_web_done"
    /\ pc' = "res_returned"
    /\ h_out' = [web_result |-> h_out.web_result, llm_calls |-> h_out.llm_calls + 1,
                 out |-> ResearchAgent_run_web(h_in.lead, h_out.web_result,
                                               h_in.response)]
    /\ UNCHANGED <<restVars, h_in>>

ResNext == ResWebStep \/ ResGenerateStep

ResSpec == ResInit /\ [][ResNext]_vars

-----------------------------------------------------------------------------
(* services/claude_service.py generate, services/notion_service.py _retry *)

_MAX_RETRIES == 3
_BASE_DELAY == 1

RetryClients == {"ClaudeService", "NotionService"}

\* what one attempt does: it returns, or raises an error of the client library
AttemptOutcomes(client) ==
    IF client = "ClaudeService" THEN
        {[error |-> "none", status |-> 200],
         [error |-> "RateLimitError", status |-> 429],
         [error |-> "APIConnectionError", status |-> 0]} \cup
        [error : {"APIStatusError"}, status : {400, 401, 500, 502, 503, 504, 529}]
    ELSE
        {[error |-> "none", status |-> 200],
         [error |-> "RequestTimeoutError", status |-> 0]} \cup
        [error : {"APIResponseError"}, status : {400, 401, 429, 500, 502, 503, 504}]

\* variant: every status of the server class is retried
Retried_every_server_status(client, outcome) ==
    \/ outcome.error \in {"RateLimitError", "APIConnectionError"}
    \/ outcome.error \in {"APIStatusError", "APIResponseError"}
         /\ (outcome.status = 429 \/ outcome.status >= 500)

\* the except clauses that sleep and go on with the loop
Retried(client, outcome) ==
    IF client = "ClaudeService" THEN
        \/ outcome.error \in {"RateLimitError", "APIConnectionError"}
        \/ outcome.error = "APIStatusError" /\ outcome.status \in {429, 500, 502, 503, 529}
    ELSE outcome.error = "APIResponseError" /\ outcome.status \in {429, 500, 502, 503}

RECURSIVE Pow2(_)
Pow2(n) == IF n = 0 THEN 1 ELSE 2 * Pow2(n - 1)

BackoffDelay(attempt) == _BASE_DELAY * Pow2(attempt)

\* h_in is the client; h_out the loop variable attempt, the outcomes of the
\* attempts made, the delays slept, and the exception that left the call
RetryInit ==
    /\ AtRest
    /\ pc = "retry_loop"
    /\ h_in \in [client : RetryClients]
    /\ h_out = [attempt |-> 0, attempts |-> <<>>, sleeps |-> <<>>, raised |-> "none"]

\* one pass of the loop
RetryAttempt ==
    /\ pc = "retry_loop"
    /\ h_out.attempt < _MAX_RETRIES
    /\ \E outcome \in AttemptOutcomes(h_in.client) :
          LET made == [h_out EXCEPT !.attempts = Append(@, outcome)]
          IN  IF outcome.error = "none" THEN
                  pc' = "retry_returned" /\ h_out' = made
              ELSE IF Retried(h_in.client, outcome) THEN
                  /\ pc' = "retry_loop"
                  /\ h_out' = [made EXCEPT
                         !.sleeps = Append(@, BackoffDelay(h_out.attempt)),
                         !.attempt = @ + 1]
              ELSE
                  pc' = "retry_raised" /\ h_out' = [made EXCEPT !.raised = outcome.error]
    /\ UNCHANGED <<restVars, h_in>>

\* after the loop
RetryExhausted ==
    /\ pc = "retry_loop"
    /\ h_out.attempt >= _MAX_RETRIES
    /\ pc' = "retry_raised"
    /\ h_out' = [h_out EXCEPT !.raised = "RuntimeError"]
    /\ UNCHANGED <<restVars, h_in>>

RetryNext == RetryAttempt \/ RetryExhausted

RetrySpec == RetryInit /\ [][RetryNext]_vars

-----------------------------------------------------------------------------
(* research_lead with the website provider only: _run_website_provider,     *)
(* _scrape_website and _fetch_and_parse, called for several leads that      *)
(* share a website on one service instance                                   *)

_SUBPAGES == <<"/about", "/pricing", "/blog">>
PER_LEAD_REQUESTS == 5
WEB_RESEARCH_MAX_PAGES == 3

ScrapeSite == "https://a.com"

\* urljoin(base_url + "/", subpage.lstrip("/")) for the site of the harness
PageUrl(base_url, subpage) ==
    CASE subpage = "/about" -> "https://a.com/about"
      [] subpage = "/pricing" -> "https://a.com/pricing"
      [] subpage = "/blog" -> "https://a.com/blog"

ScrapeUrls == {ScrapeSite} \cup {PageUrl(ScrapeSite, _SUBPAGES[i]) : i \in 1..Len(_SUBPAGES)}

\* the robots.txt of the site: unreadable, or disallowing at most one page
ScrapeRobots ==
    {[r \in RobotsUrls |-> [readable |-> FALSE, disallow |-> {}]]} \cup
    {[r \in RobotsUrls |-> [readable |-> TRUE, disallow |-> d]] :
        d \in {{}} \cup {{url} : url \in ScrapeUrls}}

\* len() of an extracted text, and of f"[{label}]\n" before it
TextChars(text) == CASE text = "" -> 0 [] text = "t1" -> 400 [] text = "t2" -> 7000

LabelChars(label) ==
    CASE label = "Homepage" -> 11
      [] label = "/about" -> 9
      [] label = "/pricing" -> 11
      [] label = "/blog" -> 8

RECURSIVE JoinedChars(_)
\* len("\n\n".join(pages_content))
JoinedChars(pages_content) ==
    IF pages_content = <<>> THEN 0
    ELSE LabelChars(Head(pages_content).label) + TextChars(Head(pages_content).text)
         + (IF Len(pages_content) > 1 THEN 2 ELSE 0)
         + JoinedChars(Tail(pages_content))

\* variant: one more page than max_pages is collected
SubpageLoopBreaks_gt(service, pages_content, max_pages) ==
    \/ Len(pages_content) > max_pages
    \/ service._request_count >= PER_LEAD_REQUESTS

\* the two break conditions of the subpage loop
SubpageLoopBreaks(service, pages_content, max_pages) ==
    \/ Len(pages_content) >= max_pages
    \/ service._request_count >= PER_LEAD_REQUESTS

\* h_in: the robots.txt of the site and max_pages.  h_out: the instance, the
\* number of research_lead calls, and for the call in progress the urls given
\* to _fetch_and_parse, the page requests issued, the pages with content and
\* the index of the next subpage; results holds what each call returned.
ScrapeInit ==
    /\ AtRest
    /\ pc = "scrape_idle"
    /\ h_in \in [robots : ScrapeRobots, max_pages : 0..WEB_RESEARCH_MAX_PAGES]
    /\ h_out = [service |-> NewService, call |-> 0, tried |-> <<>>,
                lead_requests |-> <<>>, pages_content |-> <<>>, pos |-> 1,
                results |-> <<>>]

\* research_lead up to the first fetch
research_lead_start ==
    /\ pc = "scrape_idle"
    /\ h_out.call < MaxScrapes
    /\ pc' = "scrape_home"
    /\ h_out' = [h_out EXCEPT !.service = research_lead_reset(@),
                              !.call = @ + 1, !.tried = <<>>,
                              !.lead_requests = <<>>, !.pages_content = <<>>,
                              !.pos = 1]
    /\ UNCHANGED <<restVars, h_in>>

\* the state after _fetch_and_parse(url) and the append of its content
AfterFetch(url, label, http) ==
    LET done == _fetch_and_parse(h_out.service, h_in.robots, url, http)
    IN  [h_out EXCEPT !.service = done.service,
                      !.tried = Append(@, url),
                      !.lead_requests = @ \o done.requested,
                      !.pages_content =
                          IF done.returned # ""
                          THEN Append(@, [label |-> label, text |-> done.returned])
                          ELSE @]

\* _scrape_website: the homepage
ScrapeHomepage ==
    /\ pc = "scrape_home"
    /\ pc' = "scrape_loop"
    /\ \E http \in HttpOutcomes : h_out' = AfterFetch(ScrapeSite, "Homepage", http)
    /\ UNCHANGED <<restVars, h_in>>

\* _scrape_website: one iteration of the subpage loop that does not break
ScrapeSubpage ==
    /\ pc = "scrape_loop"
    /\ h_out.pos <= Len(_SUBPAGES)
    /\ ~SubpageLoopBreaks(h_out.service, h_out.pages_content, h_in.max_pages)
    /\ \E http \in HttpOutcomes :
          h_out' = [AfterFetch(PageUrl(ScrapeSite, _SUBPAGES[h_out.pos]),
                               _SUBPAGES[h_out.pos], http)
                    EXCEPT !.pos = h_out.pos + 1]
    /\ UNCHANGED <<restVars, h_in, pc>>

\* the loop ends; _run_website_provider fills the result and research_lead
\* returns it
ScrapeReturn ==
    /\ pc = "scrape_loop"
    /\ \/ h_out.pos > Len(_SUBPAGES)
       \/ SubpageLoopBreaks(h_out.service, h_out.pages_content, h_in.max_pages)
    /\ pc' = "scrape_idle"
    /\ LET scraped == [kind |-> "content", chars |-> JoinedChars(h_out.pages_content),
                       requests |-> h_out.service._request_count]
           ran == _run_website_provider(WebResearchResult, ScrapeSite, scraped)
       IN  h_out' = [h_out EXCEPT !.results = Append(@,
                         [ran.result EXCEPT !.source_urls = Dedupe(@)]
                         @@ [pages |-> h_out.pages_content])]
    /\ UNCHANGED <<restVars, h_in>>

ScrapeNext == research_lead_start \/ ScrapeHomepage \/ ScrapeSubpage \/ ScrapeReturn

ScrapeSpec == ScrapeInit /\ [][ScrapeNext]_vars

-----------------------------------------------------------------------------
(* The end of run_pipeline (summary, run state, Slack) and the exit of main *)

\* the counts of a finished loop: one error per failed lead
EndResults ==
    {[succeeded |-> s, failed |-> f, skipped |-> k, errors |-> [i \in 1..f |-> "error"]] :
        s \in 0..MaxCount, f \in 0..MaxCount, k \in 0..MaxCount}

\* what httpx.post and raise_for_status do
SlackOutcomes == {"delivered", "HTTPStatusError", "ConnectError"}

\* variant: an exception of the post leaves send_pipeline_summary
send_pipeline_summary_uncaught(outcome) ==
    IF outcome = "delivered" THEN [raised |-> FALSE, returned |-> TRUE]
    ELSE IF outcome = "HTTPStatusError" THEN [raised |-> FALSE, returned |-> FALSE]
    ELSE [raised |-> TRUE, returned |-> FALSE]

\* SlackNotifier.send_pipeline_summary: what it returns, whether it raises
send_pipeline_summary(outcome) ==
    IF outcome = "delivered" THEN [raised |-> FALSE, returned |-> TRUE]
    ELSE [raised |-> FALSE, returned |-> FALSE]

\* variant: any failed lead gives a non-zero exit code
main_exit_code_any_failure(res) == IF res.failed > 0 THEN 1 ELSE 0

\* main, after run_pipeline returned res
main_exit_code(res) == IF res.failed > 0 /\ res.succeeded = 0 THEN 1 ELSE 0

\* h_in holds the arguments, the configuration, the result of the loop and
\* the state file before the end of the run; h_out what the end of the run
\* did: the state file, the notification and the exit code
EndInit ==
    /\ AtRest
    /\ pc = "end_summary"
    /\ h_in \in [run : [dry_run : BOOLEAN, notify_slack : BOOLEAN],
                 INCREMENTAL_ENABLED : BOOLEAN, SLACK_ENABLED : BOOLEAN,
                 SLACK_WEBHOOK_URL : {"", "https://hooks.slack.com/x"},
                 res : EndResults, state_file : {PyNone, 0}, clock : {1}]
    /\ h_out = [state_file |-> h_in.state_file, slack |-> "not_called",
                posted |-> <<>>, res |-> h_in.res, exit_code |-> PyNone]

\* lines 327-334: the run state; the write may fail with OSError, which is logged
EndSaveState ==
    /\ pc = "end_summary"
    /\ pc' = "end_slack"
    /\ IF SavesState(h_in.run, h_in.INCREMENTAL_ENABLED, h_in.res)
       THEN \E written \in BOOLEAN :
               h_out' = [h_out EXCEPT !.state_file = IF written THEN h_in.clock ELSE @]
       ELSE h_out' = h_out
    /\ UNCHANGED <<restVars, h_in>>

\* lines 336-352: the Slack notification and the return
EndNotify ==
    /\ pc = "end_slack"
    /\ IF (h_in.run.notify_slack \/ h_in.SLACK_ENABLED) /\ h_in.SLACK_WEBHOOK_URL # ""
       THEN \E outcome \in SlackOutcomes :
               LET sent == send_pipeline_summary(outcome)
                   summary == [succeeded |-> h_out.res.succeeded,
                               failed |-> h_out.res.failed,
                               skipped |-> h_out.res.skipped,
                               errors |-> h_out.res.errors,
                               dry_run |-> h_in.run.dry_run]
               IN  /\ h_out' = [h_out EXCEPT
                          !.slack = IF sent.raised THEN "raised"
                                    ELSE IF sent.returned THEN "True" ELSE "False",
                          !.posted = <<summary>>]
                   /\ pc' = IF sent.raised THEN "end_raised" ELSE "end_returned"
       ELSE /\ h_out' = h_out
            /\ pc' = "end_returned"
    /\ UNCHANGED <<restVars, h_in>>

\* main.py lines 99-100 and 104-106
MainExit ==
    /\ pc \in {"end_returned", "end_raised"}
    /\ pc' = "exited"
    /\ h_out' = [h_out EXCEPT !.exit_code =
                    IF pc = "end_raised" THEN 1 ELSE main_exit_code(h_out.res)]
    /\ UNCHANGED <<restVars, h_in>>

EndNext == EndSaveState \/ EndNotify \/ MainExit

EndSpec == EndInit /\ [][EndNext]_vars

-----------------------------------------------------------------------------
(* SignalAgent.run on one lead *)

SignalTypes == {_SIGNAL_RULES[r].signal_type : r \in 1..Len(_SIGNAL_RULES)}

SigLeads ==
    [company_name : {"", "Acme", "Hiring Hub"}, notes : SUBSET SignalTypes,
     research_brief : {{}, {"funding"}, {"technology_initiative"}},
     status : {{}, {"leadership_change"}}]

SigInit ==
    /\ AtRest
    /\ pc = "sig_call"
    /\ h_in \in [lead : SigLeads]
    /\ h_out = EmptyDict

SigApply ==
    /\ pc = "sig_call"
    /\ h_out' = SignalAgent_run(h_in.lead)
    /\ pc' = "sig_returned"
    /\ UNCHANGED <<restVars, h_in>>

SigNext == SigApply

SigSpec == SigInit /\ [][SigNext]_vars

-----------------------------------------------------------------------------
(* Claims *)

Blank == {NoneStr, "", " ", "  "}

C1_Missing(lead) ==
    \/ "existing_results" \notin DOMAIN lead
    \/ ~lead.existing_results.is_dict
    \/ lead.existing_results.icp_score \in {PyNone, NotNumeric}
    \/ lead.existing_results.icp_score < 0
    \/ lead.existing_results.priority_tier \in Blank
    \/ lead.existing_results.next_action \in Blank

C1_Changed(lead, T) ==
    /\ T # PyNone
    /\ "last_edited_time" \in DOMAIN lead
    /\ lead.last_edited_time \notin {PyNone, BadIso}
    /\ lead.last_edited_time > T

\* C1: _should_process_lead selects a lead if and only if its required outputs
\* are missing, or a last-successful-run timestamp is stored and the lead's
\* last_edited_time is strictly after it.
C1_SelectorRule ==
    pc = "sel_returned" =>
        (h_out[1] <=> (C1_Missing(h_in.lead)
                       \/ C1_Changed(h_in.lead, h_in.last_successful_run)))

\* a lead with complete outputs, edited after the stored timestamp, is selected
C1_Witness ==
    /\ pc = "sel_returned"
    /\ ~C1_Missing(h_in.lead)
    /\ h_in.last_successful_run = 0
    /\ h_in.lead.last_edited_time = 1
    /\ h_out = <<TRUE, "changed since last run">>

\* C5: PriorityAgent.run returns tier "review" for a lead whose icp_score is
\* absent or negative, with the deterministic reasoning (no boost) and without
\* a generation call, whatever the signal, last_contacted and response are.
C5_ReviewOnInvalidIcp ==
    (pc = "prio_returned"
       /\ (h_in.lead.icp_score = PyNone \/ h_in.lead.icp_score < 0)) =>
        /\ h_out.out.priority_tier = "review"
        /\ h_out.out.priority_reasoning = "ICP score is unavailable"
        /\ h_out.llm_calls = 0

\* the sentinel score with a high signal and a recent contact is still "review"
C5_Witness ==
    /\ pc = "prio_returned"
    /\ h_in.lead.icp_score = -1
    /\ h_in.lead.signal_strength = "high"
    /\ h_in.lead.last_contacted = -5
    /\ h_out.out.priority_tier = "review"
    /\ h_out.llm_calls = 0

-----------------------------------------------------------------------------
(* Claims about run_pipeline *)

AgentStages == {"icp", "research", "signal", "priority", "action"}

\* the step ends the iteration of lead idx
LeavesLead == InLoop /\ (idx' # idx \/ pc' # "loop")

\* C2: the persisted last-successful-run timestamp changes only at the end of
\* a non-dry-run run in which no lead failed, and then becomes the current
\* time; after a dry run, and after a run with a failed lead, it is what it
\* was before the run.
C2_StatePersistedOnlyAfterCleanRun ==
    [][ /\ (state_file' # state_file) =>
              /\ pc = "finish" /\ pc' = "done"
              /\ ~args.dry_run
              /\ result.failed = 0
              /\ state_file' = now
        /\ (pc' = "done" /\ (args'.dry_run \/ result'.failed > 0)) =>
              state_file' = file_at_start' ]_vars

\* a clean non-dry run that processed a lead has stored the current time
C2_Witness ==
    /\ pc = "done"
    /\ ~args.dry_run
    /\ result.failed = 0
    /\ result.succeeded > 0
    /\ state_file = now
    /\ state_file # file_at_start

\* C3: when an agent raises while lead idx is processed, failed grows by one,
\* one error naming the lead is recorded, nothing is written to the store,
\* and the loop goes on with the next lead; at the end every lead of the list
\* has been counted as succeeded or failed.
C3_FailureIsolation ==
    [][ /\ (LeavesLead /\ stage \in AgentStages) =>
              /\ result'.failed = result.failed + 1
              /\ result'.errors = Append(result.errors, leads[idx].company_name)
              /\ result'.succeeded = result.succeeded
              /\ pages' = pages
              /\ updated' = updated
              /\ leads' = leads
              /\ IF idx < Len(leads)
                 THEN pc' = "loop" /\ idx' = idx + 1 /\ stage' = "icp"
                 ELSE pc' = "finish"
        /\ (pc' = "finish") =>
              result'.succeeded + result'.failed = Len(leads') ]_vars

\* the first lead failed in an agent, the second was processed and written
C3_Witness ==
    /\ pc = "done"
    /\ result.failed = 1
    /\ result.succeeded = 1
    /\ result.errors = <<"p1">>
    /\ updated = <<"p2">>

StageOrder ==
    {<<"icp", "research">>, <<"research", "signal">>, <<"signal", "priority">>,
     <<"priority", "action">>, <<"action", "write">>}

\* C4: within a lead the stages run in the order ICP, Research, Signal,
\* Priority, Action, each once and after the previous one returned; Signal
\* gets the research_brief of Research, Priority gets the icp_score and the
\* signal fields, Action gets the priority_tier and stale_flag of Priority.
C4_StageOrderAndThreading ==
    [][ /\ (InLoop /\ ~LeavesLead /\ stage' # stage) => <<stage, stage'>> \in StageOrder
        /\ (LeavesLead /\ pc' = "loop") => (stage' = "icp" /\ cur' = NoCur)
        /\ (InLoop /\ stage = "signal" /\ stage' = "priority") =>
              /\ Get(cur'.signal_in, "research_brief", {"<absent>"})
                     = cur.research_results.research_brief
              /\ cur'.signal_in.page_id = leads[idx].page_id
        /\ (InLoop /\ stage = "priority" /\ stage' = "action") =>
              /\ Get(cur'.priority_in, "icp_score", PyNone) = cur.icp_results.icp_score
              /\ Get(cur'.priority_in, "signal_type", "<absent>")
                     = cur.signal_results.signal_type
              /\ Get(cur'.priority_in, "signal_strength", "<absent>")
                     = cur.signal_results.signal_strength
              /\ cur'.priority_in.page_id = leads[idx].page_id
        /\ (InLoop /\ stage = "action" /\ stage' = "write") =>
              /\ Get(cur'.action_in, "priority_tier", "<absent>")
                     = cur.priority_results.priority_tier
              /\ Get(cur'.action_in, "stale_flag", "<absent>")
                     = cur.priority_results.stale_flag
              /\ cur'.action_in.page_id = leads[idx].page_id ]_vars

\* a lead without notes whose generated brief mentions funding: the signal
\* comes from the brief, and all five stages have run
C4_Witness ==
    /\ InLoop /\ stage = "write"
    /\ leads[idx].notes = {}
    /\ cur.research_results.research_brief = {"funding"}
    /\ cur.signal_results.signal_type = "funding"
    /\ cur.priority_in.signal_strength = "high"
    /\ cur.action_in.priority_tier = cur.priority_results.priority_tier

\* the ICP stage of the lead in flight returned the parse-failure sentinel
Sentinel == InLoop /\ Get(cur.icp_results, "icp_score", 0) = -1

FirstN(ls, limit) ==
    IF limit \in {PyNone, 0} THEN ls
    ELSE SubSeq(ls, 1, IF limit < Len(ls) THEN limit ELSE Len(ls))

\* C7: with full_refresh or dry_run no lead is skipped: the leads processed
\* are all fetched (or sample) leads up to the limit, and each of them has
\* gone through the chain when the loop is over.
C7_RefreshAndDryRunBypassSelector ==
    (runs >= 1 /\ (args.full_refresh \/ args.dry_run)) =>
        /\ result.skipped = 0
        /\ leads = FirstN(fetched, args.limit)
        /\ args.dry_run => fetched = SAMPLE_LEADS
        /\ pc \in {"finish", "done"} => result.succeeded + result.failed = Len(leads)

\* a full refresh processes a lead with complete outputs that was last edited
\* before the stored timestamp
C7_Witness ==
    /\ pc = "done"
    /\ args.full_refresh /\ ~args.dry_run
    /\ incremental
    /\ Len(fetched) = 1
    /\ ~C1_Missing(fetched[1])
    /\ file_at_start = 0
    /\ fetched[1].last_edited_time = -1
    /\ result.skipped = 0
    /\ result.succeeded = 1
    /\ updated = <<"p1">>

\* a page whose stored outputs are complete
Complete(page) ==
    /\ page.icp_score # PyNone
    /\ page.icp_score >= 0
    /\ page.priority_tier \notin Blank
    /\ page.next_action \notin Blank

\* C8: a run that starts right after a non-dry run which failed on no lead,
\* wrote every lead it processed and persisted its timestamp, with every page
\* of the store holding complete outputs and not edited after that timestamp,
\* selects no lead in incremental mode: all fetched leads are skipped.
C8_RerunSelectsNothing ==
    [][ ( /\ pc = "done" /\ runs' = runs + 1
          /\ ~args.dry_run
          /\ result.failed = 0
          /\ leads # <<>>
          /\ Len(updated) = Len(leads)
          /\ state_file # PyNone /\ state_file # file_at_start
          /\ \A i \in 1..Len(pages) :
                Complete(pages[i]) /\ pages[i].last_edited_time <= state_file
          /\ incremental /\ ~args'.dry_run /\ ~args'.full_refresh )
        => ( /\ leads' = <<>>
             /\ result'.skipped = Len(pages)
             /\ pc' = "finish" ) ]_vars

\* C9: when the write-back of lead idx does not update the store, the lead is
\* counted in failed and not in succeeded, and an error naming it is recorded.
C9_WriteFailureCountsAsFailed ==
    [][ (InLoop /\ stage = "write" /\ ~args.dry_run /\ LeavesLead /\ updated' = updated) =>
            /\ result'.failed = result.failed + 1
            /\ result'.succeeded = result.succeeded
            /\ result'.errors = Append(result.errors, leads[idx].company_name) ]_vars

\* C10: the leads processed are the selected leads in fetch order cut to the
\* first `limit`; lead idx starts only when the idx - 1 leads before it have
\* succeeded or failed; the store updates are in the order of the list.
C10_SequentialInFetchOrder ==
    runs >= 1 =>
        LET sel == IF incremental /\ ~args.dry_run /\ ~args.full_refresh
                   THEN SelectSeq(fetched, LAMBDA l : C1_Missing(l)
                                                      \/ C1_Changed(l, file_at_start))
                   ELSE fetched
            finished == result.succeeded + result.failed
            pos(id) == CHOOSE i \in 1..Len(leads) : leads[i].page_id = id
        IN  /\ leads = FirstN(sel, args.limit)
            /\ InLoop => finished = idx - 1
            /\ pc \in {"finish", "done"} => finished = Len(leads)
            /\ \A a \in 1..Len(updated) :
                  \E i \in 1..finished : leads[i].page_id = updated[a]
            /\ \A a, b \in 1..Len(updated) :
                  a < b => pos(updated[a]) < pos(updated[b])

\* two leads selected, processed and written in fetch order
C10_Witness ==
    /\ pc = "done"
    /\ incremental /\ ~args.dry_run /\ ~args.full_refresh
    /\ Len(fetched) = 2
    /\ updated = <<"p1", "p2">>
    /\ result.succeeded = 2

-----------------------------------------------------------------------------
(* Claims about PriorityAgent.run *)

\* the days since last contact of the call in h_in
PrioDays ==
    IF h_in.lead.last_contacted \in {PyNone, BadIso} THEN UnknownDays
    ELSE h_in.clock - h_in.lead.last_contacted

\* the value of priority_tier in the generation response, "" when the
\* response has none or is not JSON
PrioAnswer ==
    IF h_in.response.json /\ "priority_tier" \in DOMAIN h_in.response
    THEN h_in.response.priority_tier
    ELSE ""

\* the tier before any boost, by the documented rules
PreBoostTier ==
    LET icp == h_in.lead.icp_score
    IN  IF icp = PyNone \/ icp < 0 THEN "review"
        ELSE IF icp >= HIGH_ICP_MIN /\ PrioDays <= HIGH_RECENCY_MAX THEN "high"
        ELSE IF icp <= LOW_ICP_MAX THEN "low"
        ELSE IF PrioDays >= LOW_STALE_DAYS THEN "low"
        ELSE IF PrioAnswer \in {"high", "HIGH"} THEN "high"
        ELSE IF PrioAnswer = "low" THEN "low"
        ELSE "medium"

BoostGuard ==
    /\ PreBoostTier = "medium"
    /\ h_in.lead.signal_strength = "high"
    /\ h_in.lead.icp_score > LOW_ICP_MAX

BoostedReasonings == {"Boosted from medium to high"}

\* C11: when the pre-boost tier is "medium", signal_strength is "high" and
\* icp_score > LOW_ICP_MAX, PriorityAgent.run returns tier "high" with a
\* reasoning that contains "Boosted from medium to high".
C11_SignalBoost ==
    (pc = "prio_returned" /\ BoostGuard) =>
        /\ h_out.out.priority_tier = "high"
        /\ h_out.out.priority_reasoning \in BoostedReasonings

C18_StaleFlagFromDaysOnly ==
    pc = "prio_returned" =>
        /\ {"priority_tier", "stale_flag", "days_since_contact"} \subseteq DOMAIN h_out.out
        /\ h_out.out.days_since_contact = PrioDays
        /\ h_out.out.stale_flag = (PrioDays >= STALE_DAYS_THRESHOLD)

\* a review result that is stale, exactly at the threshold
C18_Witness ==
    /\ pc = "prio_returned"
    /\ h_in.lead.icp_score = -1
    /\ h_out.out.priority_tier = "review"
    /\ PrioDays = STALE_DAYS_THRESHOLD
    /\ h_out.out.stale_flag = TRUE

-----------------------------------------------------------------------------
(* Claims about ActionAgent.run *)

\* C14: the deterministic rules of ActionAgent: tier "review" gives
\* enrich_data, "low" gives nurture, "high" gives outreach_now when not stale
\* and reengage when stale; each with confidence "high", without a generation
\* call and whatever the generation would have answered.
C14_DeterministicActions ==
    (pc = "act_returned" /\ "priority_tier" \in DOMAIN h_in.lead) =>
        LET tier == h_in.lead.priority_tier
            stale == "stale_flag" \in DOMAIN h_in.lead /\ h_in.lead.stale_flag
            expected == CASE tier = "review" -> "enrich_data"
                          [] tier = "low" -> "nurture"
                          [] tier = "high" /\ ~stale -> "outreach_now"
                          [] tier = "high" /\ stale -> "reengage"
                          [] OTHER -> ""
        IN  expected # "" =>
                /\ h_out.out.next_action = expected
                /\ h_out.out.action_confidence = "high"
                /\ h_out.llm_calls = 0

\* a stale high-tier lead is re-engaged, though the generation says "hold"
C14_Witness ==
    /\ pc = "act_returned"
    /\ "stale_flag" \in DOMAIN h_in.lead
    /\ h_in.lead.priority_tier = "high"
    /\ h_in.lead.stale_flag
    /\ "next_action" \in DOMAIN h_in.response
    /\ h_in.response.next_action = "hold"
    /\ h_out.out.next_action = "reengage"
    /\ h_out.out.action_confidence = "high"

\* the reasonings ActionAgent writes itself, all shorter than 1000 characters
ActOwnReasonings ==
    {"Insufficient signal", "Low-priority lead", "High-priority lead",
     "Strong fit but stale", "Could not parse model output.",
     "Determine next step from available lead context."}

-----------------------------------------------------------------------------
(* Claims about ICPAgent *)

\* C16: for every parseable response ICPAgent returns icp_score in 0..100,
\* confidence_score in 0..100 and the five dimension scores, each in 0..20;
\* when the response has no icp_score the returned icp_score is the sum of
\* the five clamped dimension scores.
C16_IcpClamping ==
    (pc = "icp_returned" /\ h_in.response.json) =>
        /\ h_out.icp_score \in 0..100
        /\ h_out.confidence_score \in 0..100
        /\ "dimension_scores" \in DOMAIN h_out
        /\ \A i \in 1..Len(DIMENSIONS) :
              /\ DIMENSIONS[i] \in DOMAIN h_out.dimension_scores
              /\ h_out.dimension_scores[DIMENSIONS[i]] \in 0..20
        /\ "icp_score" \notin DOMAIN h_in.response =>
              h_out.icp_score = h_out.dimension_scores[DIMENSIONS[1]]
                              + h_out.dimension_scores[DIMENSIONS[2]]
                              + h_out.dimension_scores[DIMENSIONS[3]]
                              + h_out.dimension_scores[DIMENSIONS[4]]
                              + h_out.dimension_scores[DIMENSIONS[5]]

-----------------------------------------------------------------------------
(* Claims about the structured agent calls on malformed output *)

\* the text holds no JSON value
Malformed == h_in.raw.body \in {"truncated", "garbage"}

-----------------------------------------------------------------------------
(* Claims about the web research service *)

WebTrace == h_out.result.provider_trace

\* the entries of the trace that note the threshold
WaterfallEntries == {k \in 1..Len(WebTrace) : WebTrace[k].provider = "waterfall"}

\* the state of the loop agrees with the stopping rule: i - 1 providers of
\* the order have run, each leaving its entry; the loop is left by break
\* exactly when the threshold is reached and not all providers are forced
C19_StopState ==
    pc \in {"web_loop", "web_returned"} =>
        /\ \A k \in 1..(h_out.i - 1) :
              WebTrace[k].provider = h_in.provider_order[k]
        /\ h_out.stopped <=>
              /\ ~h_in.run_all_providers
              /\ h_out.i > 1
              /\ _combined_chars(h_out.result) >= h_in.target_chars
        /\ IF h_out.stopped
           THEN /\ WaterfallEntries = {h_out.i}
                /\ Len(WebTrace) = h_out.i
                /\ WebTrace[h_out.i] =
                      [provider |-> "waterfall", status |-> "stop_threshold_reached",
                       combined_chars |-> _combined_chars(h_out.result),
                       target_chars |-> h_in.target_chars]
           ELSE WaterfallEntries = {} /\ Len(WebTrace) = h_out.i - 1
        /\ (pc = "web_returned" /\ ~h_out.stopped) =>
              h_out.i - 1 = Len(h_in.provider_order)

\* C19: with run_all_providers false, once the combined length of
\* website_content and search_results reaches target_chars after a provider,
\* a trace entry notes the threshold and no later provider of the order is
\* invoked; with run_all_providers true every provider of the order is run.
C19_WaterfallStoppingRule ==
    [][/\ C19_StopState'
       /\ (pc = "web_loop" /\ h_out.stopped) =>
             /\ h_out'.calls = h_out.calls
             /\ h_out'.result.provider_trace = WebTrace
             /\ h_out'.i = h_out.i]_vars

\* the website alone reaches the threshold and the search is never invoked
C19_Witness ==
    /\ pc = "web_returned"
    /\ ~h_in.run_all_providers
    /\ h_in.provider_order = <<"website", "brave">>
    /\ h_in.brave_api_key # "" /\ h_in.company_name # ""
    /\ h_out.stopped
    /\ h_out.i = 2
    /\ h_out.calls = <<"_scrape_website">>

\* the provider that runs in this step, the entry it leaves, and what it needs
StepProvider == h_in.provider_order[h_out.i]

StepEntry == h_out'.result.provider_trace[Len(WebTrace) + 1]

MissingPrerequisite ==
    IF StepProvider = "website" THEN h_in.website = ""
    ELSE h_in.brave_api_key = "" \/ h_in.company_name = ""

-----------------------------------------------------------------------------
(* Claims about fetching pages *)

FetchStep == h_out'.fetches = h_out.fetches + 1

NoRepeats(seq) == \A i, j \in 1..Len(seq) : seq[i] = seq[j] => i = j

Disallowed(url) ==
    h_in[RobotsUrl(url)].readable /\ url \in h_in[RobotsUrl(url)].disallow

-----------------------------------------------------------------------------
(* Claims about the research agent *)

\* the score the lead alone gives: company name, website, notes, long notes
LeadScore ==
    (IF Strip(h_in.lead.company_name) # "" THEN 1 ELSE 0)
    + (IF h_in.lead.website # "" THEN 1 ELSE 0)
    + (IF h_in.lead.notes.chars > 0 THEN 1 ELSE 0)
    + (IF h_in.lead.notes.chars >= 120 THEN 1 ELSE 0)

ConfidenceOf(score) ==
    IF score >= 6 THEN "high" ELSE IF score >= 3 THEN "medium" ELSE "low"

\* C23: if the web research raises, ResearchAgent.run still calls the
\* generation exactly once and returns a brief; confidence and citations are
\* those of a run without any web result, and no exception leaves the agent
\* because of the web research.
C23_WebFailureDoesNotAbortResearch ==
    /\ pc # "res_raised"
    /\ (pc = "res_returned" /\ h_in.web.kind = "raise") =>
          /\ h_out.llm_calls = 1
          /\ h_out.out.research_brief.response = h_in.response
          /\ h_out.out.research_confidence = ConfidenceOf(LeadScore)
          /\ \A k \in 1..Len(h_out.out.research_citations) :
                h_out.out.research_citations[k].text # ""
          /\ h_out.out =
                ResearchAgent_run_web(h_in.lead, GatherWeb([kind |-> "none"]).web_result,
                                      h_in.response)

C23_Witness ==
    /\ pc = "res_returned"
    /\ h_in.web.kind = "raise"
    /\ h_out.llm_calls = 1
    /\ h_out.out.research_confidence = "medium"
    /\ h_out.out.research_source_count = 2

\* C24: the citation list never contains the same url twice and keeps
\* first-occurrence order (the website, the "CRM Notes" marker, the source
\* urls); research_source_count is its length, and the "## SOURCES" section
\* is appended exactly when the list is not empty.
C24_CitationsWithoutDuplicateUrls ==
    pc = "res_returned" =>
        LET citations == h_out.out.research_citations
        IN  /\ \A i, j \in 1..Len(citations) :
                  (citations[i].url # "" /\ citations[i].url = citations[j].url)
                      => i = j
            /\ h_out.out.research_source_count = Len(citations)
            /\ h_out.out.research_brief.sources <=> citations # <<>>
            /\ h_out.out.research_brief.listed = citations

\* the score with the web result: content +2, two pages +1, search +1
WebScore ==
    IF h_in.web.kind # "result" THEN 0
    ELSE (IF h_in.web.result.website_content > 0 THEN 2 ELSE 0)
         + (IF h_in.web.result.pages_fetched >= 2 THEN 1 ELSE 0)
         + (IF h_in.web.result.search_results > 0 THEN 1 ELSE 0)

\* C29: the confidence is "high" for a weighted score of 6 or more, "medium"
\* for 3 to 5 and "low" below; it is "low" for an empty company, website and
\* notes without web result, and never "high" without a web result.
C29_ConfidenceFromWeightedScore ==
    pc = "res_returned" =>
        /\ h_out.out.research_confidence = ConfidenceOf(LeadScore + WebScore)
        /\ (LeadScore = 0 /\ h_in.web.kind # "result") =>
              h_out.out.research_confidence = "low"
        /\ h_in.web.kind # "result" => h_out.out.research_confidence # "high"

\* a score of exactly 6: company, website, short notes, content and search
C29_Witness ==
    /\ pc = "res_returned"
    /\ LeadScore + WebScore = 6
    /\ h_in.lead.notes.chars = 119
    /\ h_in.web.kind = "result" /\ h_in.web.result.pages_fetched = 1
    /\ h_out.out.research_confidence = "high"

-----------------------------------------------------------------------------
(* Claims about the retries of the clients *)

LastAttempt == h_out'.attempts[Len(h_out'.attempts)]

\* the rule of the retry loop, for a given reading of "transient failure"
RetryRule(Transient(_)) ==
    /\ Len(h_out'.attempts) <= 3
    /\ Len(h_out'.attempts) = Len(h_out.attempts) + 1 =>
          IF LastAttempt.error = "none" THEN
              /\ pc' = "retry_returned"
              /\ h_out'.sleeps = h_out.sleeps
          ELSE IF Transient(LastAttempt) THEN
              /\ pc' = "retry_loop"
              /\ h_out'.sleeps = Append(h_out.sleeps, Pow2(Len(h_out.attempts)))
          ELSE
              /\ pc' = "retry_raised"
              /\ h_out'.raised = LastAttempt.error
              /\ h_out'.sleeps = h_out.sleeps
    /\ Len(h_out'.attempts) = Len(h_out.attempts) =>
          /\ Len(h_out.attempts) = 3
          /\ pc' = "retry_raised"
          /\ h_out'.raised = "RuntimeError"
          /\ h_out'.sleeps = h_out.sleeps

\* transient as the claim has it: rate limit, server-class status, connection
\* error, in either client
TransientAsClaimed(outcome) ==
    \/ outcome.status = 429
    \/ outcome.status >= 500
    \/ outcome.error \in {"APIConnectionError", "RequestTimeoutError"}

TransientOfClient(outcome) ==
    \/ outcome.status \in {429, 500, 502, 503}
    \/ h_in.client = "ClaudeService" /\ outcome.status = 529
    \/ h_in.client = "ClaudeService" /\ outcome.error = "APIConnectionError"

-----------------------------------------------------------------------------
(* Claims about the record store and the host program *)

\* C26: every lead record returned by fetch_leads of the Notion store
\* exposes the page's last_edited_time and an existing_results snapshot
\* holding the stored icp_score, priority_tier and next_action.
C26_FetchedLeadsExposeStoredResults ==
    [][(runs' = runs + 1 /\ ~args'.dry_run /\ notion = "NotionService") =>
          /\ Len(fetched') = Len(pages)
          /\ \A i \in 1..Len(pages) :
                /\ fetched'[i].page_id = pages[i].page_id
                /\ "last_edited_time" \in DOMAIN fetched'[i]
                /\ "existing_results" \in DOMAIN fetched'[i]
                /\ fetched'[i].last_edited_time = pages[i].last_edited_time
                /\ fetched'[i].existing_results.icp_score = pages[i].icp_score
                /\ fetched'[i].existing_results.priority_tier = pages[i].priority_tier
                /\ fetched'[i].existing_results.next_action = pages[i].next_action]_vars


\* C27: after run_pipeline returns, the exit code is non-zero only when
\* every processed lead failed (failed > 0 and succeeded = 0); a run with a
\* succeeded lead, also one with failed leads, exits 0.
C27_ExitCode ==
    pc = "exited" =>
        /\ h_out.exit_code # 0 <=> (h_in.res.failed > 0 /\ h_in.res.succeeded = 0)
        /\ h_in.res.succeeded > 0 => h_out.exit_code = 0

\* a partial success
C27_Witness ==
    /\ pc = "exited"
    /\ h_in.res.succeeded > 0 /\ h_in.res.failed > 0
    /\ h_out.exit_code = 0

\* the notification is asked for and can be sent
SlackCalled ==
    (h_in.run.notify_slack \/ h_in.SLACK_ENABLED) /\ h_in.SLACK_WEBHOOK_URL # ""

\* C30: send_pipeline_summary never raises and returns False on a delivery
\* failure; the counts and the errors that run_pipeline returns, the
\* persisted run state and the exit status are the same whether the
\* notification is delivered, fails or is not configured.
C30_NotificationBestEffort ==
    [][/\ pc' # "end_raised"
       /\ pc = "end_slack" =>
             /\ h_out'.res = h_in.res
             /\ h_out'.state_file = h_out.state_file
             /\ h_out'.slack \in (IF SlackCalled THEN {"True", "False"}
                                  ELSE {"not_called"})
       /\ pc' = "exited" =>
             /\ h_out'.res = h_in.res
             /\ h_out'.state_file = h_out.state_file
             /\ h_out'.exit_code =
                   IF h_in.res.failed > 0 /\ h_in.res.succeeded = 0 THEN 1 ELSE 0]_vars

\* a failed delivery after a clean run whose state was saved
C30_Witness ==
    /\ pc = "exited"
    /\ h_out.slack = "False"
    /\ h_in.res.failed = 0 /\ h_in.res.succeeded > 0
    /\ h_out.state_file = h_in.clock
    /\ h_out.exit_code = 0

-----------------------------------------------------------------------------
(* Claims about the signal agent *)

\* the rules with a pattern that matches the text of the lead
SigHits ==
    {r \in 1..Len(_SIGNAL_RULES) :
        _SIGNAL_RULES[r].signal_type \in
            (NameSignals(h_in.lead.company_name) \cup h_in.lead.notes
             \cup h_in.lead.research_brief \cup h_in.lead.status)}

SigRank(r) == _STRENGTH_RANK[_SIGNAL_RULES[r].signal_strength]

\* C28: SignalAgent returns, among the rules with a pattern matching the
\* text (company name, notes, research brief, status), the one of highest
\* strength rank, and among those of equal rank the one declared first; it
\* returns "none" / "none" when no rule matches.
C28_HighestRankFirstDeclared ==
    pc = "sig_returned" =>
        IF SigHits = {}
        THEN h_out.signal_type = "none" /\ h_out.signal_strength = "none"
        ELSE \E r \in SigHits :
                /\ h_out.signal_type = _SIGNAL_RULES[r].signal_type
                /\ h_out.signal_strength = _SIGNAL_RULES[r].signal_strength
                /\ \A q \in SigHits :
                      SigRank(q) < SigRank(r) \/ (SigRank(q) = SigRank(r) /\ r <= q)

\* hiring (medium, from the company name) and two high rules match: the
\* first declared of the high rules is returned
C28_Witness ==
    /\ pc = "sig_returned"
    /\ h_in.lead.company_name = "Hiring Hub"
    /\ h_in.lead.notes = {"leadership_change"}
    /\ h_in.lead.research_brief = {"funding"}
    /\ h_out.signal_type = "funding"

-----------------------------------------------------------------------------
(* Claims about dry runs and interrupted runs *)

\* the five agents have produced their results for the lead in flight
ChainComplete ==
    /\ cur.icp_results # EmptyDict
    /\ cur.research_results # EmptyDict
    /\ cur.signal_results # EmptyDict
    /\ cur.priority_results # EmptyDict
    /\ cur.action_results # EmptyDict

Interrupted == h_out = EmptyDict /\ h_out' # EmptyDict

\* C32: an interrupt during the batch loop ends the run: no lead is started
\* after it and nothing changes any more, the pages updated for earlier leads
\* keep the results written to them, the run-state file is the one the run
\* started with, and the exit code of the process is 0.
C32_InterruptStopsBatch ==
    [][ /\ Interrupted =>
            /\ pc' = "exited"
            /\ h_out'.exit_code = 0
            /\ idx' = idx /\ result' = result
            /\ state_file' = file_at_start
            /\ "_save_last_successful_run" \notin called'
            /\ \A a \in 1..Len(updated) :
                  /\ updated'[a] = updated[a]
                  /\ pages'[PageIndex(updated[a])] = pages[PageIndex(updated[a])]
        /\ h_out # EmptyDict => UNCHANGED <<pages, state_file, pc, idx, stage, result, called>>
      ]_vars

\* the second lead is interrupted after the first was written to the store
C32_Witness ==
    /\ pc = "exited"
    /\ h_out.exit_code = 0
    /\ Len(leads) = 2 /\ idx = 2 /\ stage = "priority"
    /\ updated = <<"p1">>
    /\ pages[1].icp_score # PyNone /\ pages[1].last_edited_time = now
    /\ result.succeeded = 1
    /\ file_at_start = 0 /\ state_file = 0

-----------------------------------------------------------------------------
(* Claims about the size of the scraped content and the request bound *)

\* C33: the website_content of the result research_lead is building is at
\* most _MAX_CONTENT_CHARS characters long.
C33_WebsiteContentWithinCeiling ==
    pc \in {"web_loop", "web_returned"} =>
        h_out.result.website_content <= _MAX_CONTENT_CHARS

-----------------------------------------------------------------------------
(* Claims about what consecutive incremental runs select *)

\* the run whose arguments are a selects by the incremental selector
IncrementalRun(a) == incremental_mode(incremental, a.dry_run, a.full_refresh)

\* the step starts the run that follows a finished incremental run
NextIncrementalRunStarts ==
    /\ pc = "done" /\ runs >= 1 /\ runs' = runs + 1
    /\ IncrementalRun(args) /\ IncrementalRun(args')
    /\ Len(fetched') = Len(fetched)

\* what the selector of the starting run says about the lead of page i
SelectedByStartingRun(i) ==
    _should_process_lead(fetched'[i], _load_last_successful_run(state_file))

\* C34: a lead with complete outputs that the finished run selected as changed
\* since the last run but did not process because of the limit, and that was
\* not edited since, is selected by the run that starts.
C34_NoChangedLeadLostToLimit ==
    [][ NextIncrementalRunStarts =>
          \A i \in 1..Len(fetched) :
             ( /\ _has_required_outputs(fetched[i].existing_results)
               /\ _should_process_lead(fetched[i], _load_last_successful_run(file_at_start))
                     = <<TRUE, "changed since last run">>
               /\ \A j \in 1..Len(leads) : leads[j].page_id # fetched[i].page_id
               /\ fetched'[i].last_edited_time = fetched[i].last_edited_time )
             => SelectedByStartingRun(i)[1]
      ]_vars

\* the finished run fetched the lead of page i before its last edit and saved
\* its timestamp after it
EditedDuringFinishedRun(i) ==
    /\ state_file # file_at_start
    /\ fetched[i].last_edited_time < fetched'[i].last_edited_time
    /\ fetched'[i].last_edited_time < state_file

\* C35: a lead with complete outputs that was edited while the finished run
\* was in progress, after that run fetched the leads and before it saved the
\* run state, is selected as changed since the last run by the run that starts.
C35_NoEditLostToConcurrentRun ==
    [][ NextIncrementalRunStarts =>
          \A i \in 1..Len(fetched) :
             ( /\ _has_required_outputs(fetched'[i].existing_results)
               /\ EditedDuringFinishedRun(i) )
             => SelectedByStartingRun(i) = <<TRUE, "changed since last run">>
      ]_vars

\* the step starts an incremental run
IncrementalRunStarts == runs' = runs + 1 /\ IncrementalRun(args')

\* the limit of the run that starts cuts nothing off
NoCut == args'.limit \in {PyNone, 0} \/ args'.limit >= Len(fetched')

\* C36: an incremental run that starts while the stored icp_score of a page
\* is the sentinel -1 selects that page, whatever its last_edited_time and
\* the stored run timestamp: it is not among the skipped leads, and it is in
\* the list the batch loop works on unless the limit cuts it off.
C36_SentinelLeadSelectedAgain ==
    [][ IncrementalRunStarts =>
          LET sentinels == {i \in 1..Len(pages) : pages[i].icp_score = -1}
          IN  /\ result'.skipped <= Len(pages) - Cardinality(sentinels)
              /\ NoCut => \A i \in sentinels :
                              \E j \in 1..Len(leads') : leads'[j].page_id = pages[i].page_id
      ]_vars

\* the second run works on a lead that carries the sentinel and was last
\* edited before the stored timestamp
C36_Witness ==
    /\ runs = 2 /\ pc = "loop"
    /\ notion = "_StubNotionService"
    /\ IncrementalRun(args)
    /\ state_file = 0
    /\ leads[idx].existing_results.icp_score = -1
    /\ leads[idx].last_edited_time = -1
    /\ result.skipped = 0

-----------------------------------------------------------------------------
(* Claims about the counts of the result *)

\* the leads of the loop whose processing has ended
Ended == IF pc = "loop" THEN idx - 1 ELSE Len(leads)

\* the companies of the leads counted as succeeded and as failed
CountedCompanies ==
    [i \in 1..Len(result.lead_summaries) |-> result.lead_summaries[i].company]
    \o result.errors

\* C37: at every point of a run no lead is counted twice, there is one error
\* per failed lead and one summary per succeeded lead, succeeded + failed is
\* the number of leads whose processing ended, and the skipped leads are
\* fetched leads outside the loop; at the end the three counts add up to the
\* number of fetched leads when no limit is given, and to at most that number
\* with a limit.
C37_CountInvariant ==
    pc \in {"loop", "finish", "done"} =>
        /\ Len(result.errors) = result.failed
        /\ Len(result.lead_summaries) = result.succeeded
        /\ result.succeeded + result.failed = Ended
        /\ \A a, b \in 1..Len(CountedCompanies) :
              CountedCompanies[a] = CountedCompanies[b] => a = b
        /\ \A a \in 1..Len(CountedCompanies) :
              \E i \in 1..Ended : leads[i].company_name = CountedCompanies[a]
        /\ result.skipped + Len(leads) <= Len(fetched)
        /\ pc \in {"finish", "done"} =>
              /\ result.succeeded + result.failed + result.skipped <= Len(fetched)
              /\ args.limit = PyNone =>
                    result.succeeded + result.failed + result.skipped = Len(fetched)

\* a run with a limit that ends with fewer counted leads than fetched ones
C37_Witness ==
    /\ pc = "done"
    /\ args.limit = 1 /\ ~args.dry_run
    /\ Len(fetched) = 2
    /\ result.failed = 1 /\ result.succeeded = 0 /\ result.skipped = 0

-----------------------------------------------------------------------------
(* Claims about leads of unknown recency *)

ClaimedOrder ==
    <<"https://a.com", "https://a.com/about", "https://a.com/pricing", "https://a.com/blog">>

PositionOf(url) == CHOOSE k \in 1..Len(ClaimedOrder) : ClaimedOrder[k] = url

\* C39: for each lead the request counter starts at 0 and counts the page
\* requests of that lead, which are at most 5; the pages are tried in the
\* order homepage, about, pricing, blog, the homepage always; and a subpage
\* is tried only while fewer than max_pages pages with content are collected.
C39_RequestBound ==
    [][ /\ pc' = "scrape_home" => h_out'.service._request_count = 0
        /\ h_out'.service._request_count = Len(h_out'.lead_requests)
        /\ Len(h_out'.lead_requests) <= 5
        /\ \A k \in 1..Len(h_out'.tried) : h_out'.tried[k] = ClaimedOrder[k]
        /\ \A a, b \in 1..Len(h_out'.lead_requests) :
              a < b => PositionOf(h_out'.lead_requests[a]) < PositionOf(h_out'.lead_requests[b])
        /\ pc' = "scrape_loop" => Len(h_out'.tried) >= 1
        /\ (Len(h_out'.tried) > Len(h_out.tried) /\ Len(h_out.tried) >= 1) =>
              Len(h_out.pages_content) < h_in.max_pages
      ]_vars

\* with max_pages 2 the homepage has no content, about and pricing have, and
\* blog is not tried
C39_Witness ==
    /\ pc = "scrape_idle"
    /\ h_in.max_pages = 2
    /\ h_out.call = 1
    /\ h_out.tried = <<"https://a.com", "https://a.com/about", "https://a.com/pricing">>
    /\ h_out.lead_requests = h_out.tried
    /\ Len(h_out.pages_content) = 2
    /\ h_out.pages_content[1].label = "/about"

\* C40: every later research_lead call for the website on the same instance
\* issues no page request and returns the website_content, the source_urls
\* and the pages_fetched of the first call.
C40_RepeatableResearch ==
    /\ (h_out.call >= 2 /\ pc \in {"scrape_home", "scrape_loop", "scrape_idle"}) =>
          h_out.lead_requests = <<>>
    /\ \A k \in 2..Len(h_out.results) :
          /\ h_out.results[k].pages = h_out.results[1].pages
          /\ h_out.results[k].website_content = h_out.results[1].website_content
          /\ h_out.results[k].source_urls = h_out.results[1].source_urls
          /\ h_out.results[k].pages_fetched = h_out.results[1].pages_fetched

====
